---- MODULE Spec2Model ----
(***************************************************************************)
(* TOONIFY core: the quoting rules, the encoder (tree value -> TOON text)  *)
(* and the decoder / validator (TOON text -> tree value).                  *)
(*                                                                         *)
(* Text is a sequence of one-character strings.  Positions are 1-based,    *)
(* and 0 stands for Rust's None where the code searches for a character.   *)
(* Tree values are records tagged by the field t:                          *)
(*   [t |-> "null"], [t |-> "bool", b], [t |-> "num", k |-> "int", n],     *)
(*   [t |-> "num", k |-> "float", lit], [t |-> "str", s],                  *)
(*   [t |-> "arr", a |-> <<values>>],                                      *)
(*   [t |-> "obj", o |-> << [k |-> key, v |-> value], ... >>]              *)
(* An object is the sequence of its entries in insertion order.            *)
(***************************************************************************)
EXTENDS Integers, Sequences, FiniteSets, TLC

VARIABLES
    pc,       \* position of the run: which call comes next
    value,    \* the tree value handed to encode_value
    eopts,    \* EncoderOptions
    enc,      \* result of encode_value(value, eopts)
    doc,      \* the raw lines of a document written by hand
    text,     \* TOON text handed to decode_str and validate_str
    dopts,    \* DecoderOptions
    res,      \* result of decode_str(text, dopts)
    vres,     \* result of validate_str(text, dopts)
    enc2,     \* result of encode_value(res.v, eopts), the normal form
    res2,     \* result of decode_str on the normal form
    str,      \* the string handed to encode_string
    tok,      \* encode_string(str, eopts.document_delimiter)
    prim      \* result of parse_primitive_token(tok)

vars == <<pc, value, eopts, enc, doc, text, dopts, res, vres, enc2, res2, str, tok, prim>>

(***************************************************************************)
(* Characters and string helpers (Rust str methods used by the code).      *)
(***************************************************************************)
Letters ==
    {"a","b","c","d","e","f","g","h","i","j","k","l","m","n","o","p","q","r",
     "s","t","u","v","w","x","y","z","A","B","C","D","E","F","G","H","I","J",
     "K","L","M","N","O","P","Q","R","S","T","U","V","W","X","Y","Z"}

DigitSeq == <<"0","1","2","3","4","5","6","7","8","9">>

Digits == {DigitSeq[i] : i \in 1..10}

DigitVal(c) == (CHOOSE i \in 1..10 : DigitSeq[i] = c) - 1

\* char::is_whitespace on the characters the model uses
IsWs(c) == c \in {" ", "\t", "\n", "\r"}

RECURSIVE TrimStart(_)
TrimStart(s) ==
    IF s = <<>> THEN s
    ELSE IF IsWs(Head(s)) THEN TrimStart(Tail(s)) ELSE s

RECURSIVE TrimEnd(_)
TrimEnd(s) ==
    IF s = <<>> THEN s
    ELSE IF IsWs(s[Len(s)]) THEN TrimEnd(SubSeq(s, 1, Len(s) - 1)) ELSE s

Trim(s) == TrimEnd(TrimStart(s))

Contains(s, c) == \E i \in 1..Len(s) : s[i] = c

\* str::find(char): position of the first occurrence, 0 for None
Find(s, c) ==
    IF Contains(s, c)
    THEN CHOOSE i \in 1..Len(s) : s[i] = c /\ \A j \in 1..(i - 1) : s[j] # c
    ELSE 0

\* str::rfind(char): position of the last occurrence, 0 for None
RFind(s, c) ==
    IF Contains(s, c)
    THEN CHOOSE i \in 1..Len(s) : s[i] = c /\ \A j \in (i + 1)..Len(s) : s[j] # c
    ELSE 0

StartsWith(s, p) == Len(s) >= Len(p) /\ SubSeq(s, 1, Len(p)) = p

EndsWithCh(s, c) == s # <<>> /\ s[Len(s)] = c

From(s, i) == SubSeq(s, i, Len(s))

RECURSIVE Flatten(_)
Flatten(ss) == IF ss = <<>> THEN <<>> ELSE Head(ss) \o Flatten(Tail(ss))

\* [String]::join(sep)
RECURSIVE Join(_, _)
Join(ss, sep) ==
    IF ss = <<>> THEN <<>>
    ELSE IF Len(ss) = 1 THEN ss[1]
    ELSE ss[1] \o sep \o Join(Tail(ss), sep)

\* " ".repeat(n)
RECURSIVE Spaces(_)
Spaces(n) == IF n <= 0 THEN <<>> ELSE <<" ">> \o Spaces(n - 1)

\* usize / i64 to_string: plain decimal
RECURSIVE NatToDec(_)
NatToDec(n) ==
    IF n < 10 THEN <<DigitSeq[n + 1]>>
    ELSE NatToDec(n \div 10) \o <<DigitSeq[(n % 10) + 1]>>

IntToDec(n) == IF n < 0 THEN <<"-">> \o NatToDec(0 - n) ELSE NatToDec(n)

RECURSIVE DecToNat(_)
DecToNat(s) ==
    IF s = <<>> THEN 0
    ELSE DecToNat(SubSeq(s, 1, Len(s) - 1)) * 10 + DigitVal(s[Len(s)])

AllDigits(s) == \A i \in 1..Len(s) : s[i] \in Digits

\* length of the run of ASCII digits of s that starts at position i
RECURSIVE DigitRun(_, _)
DigitRun(s, i) ==
    IF i <= Len(s) /\ s[i] \in Digits THEN 1 + DigitRun(s, i + 1) ELSE 0

\* The JSON number grammar serde_json parses:
\*   -? (0 | [1-9][0-9]*) (. [0-9]+)? ([eE] [+-]? [0-9]+)?
JsonExponentDigits(s, p) ==
    DigitRun(s, p) >= 1 /\ p + DigitRun(s, p) = Len(s) + 1

\* ([eE] [+-]? [0-9]+)? from position p to the end of s
JsonExponent(s, p) ==
    IF p <= Len(s) /\ s[p] \in {"e", "E"}
    THEN JsonExponentDigits(s, IF p + 1 <= Len(s) /\ s[p + 1] \in {"+", "-"}
                               THEN p + 2 ELSE p + 1)
    ELSE p = Len(s) + 1

\* (. [0-9]+)? from position p, then the exponent
JsonFraction(s, p) ==
    IF p <= Len(s) /\ s[p] = "."
    THEN DigitRun(s, p + 1) >= 1 /\ JsonExponent(s, p + 1 + DigitRun(s, p + 1))
    ELSE JsonExponent(s, p)

\* (0 | [1-9][0-9]*) from position p, then the fraction
JsonInteger(s, p) ==
    /\ DigitRun(s, p) >= 1
    /\ JsonFraction(s, p + (IF s[p] = "0" THEN 1 ELSE DigitRun(s, p)))

IsJsonNumber(s) == JsonInteger(s, IF s # <<>> /\ s[1] = "-" THEN 2 ELSE 1)

(***************************************************************************)
(* Tree values.                                                            *)
(***************************************************************************)
Null == [t |-> "null"]

Bool(b) == [t |-> "bool", b |-> b]

NumInt(n) == [t |-> "num", k |-> "int", n |-> n]

\* a number serde_json keeps as f64, standing for the value of its literal
NumFloat(lit) == [t |-> "num", k |-> "float", lit |-> lit]

Str(s) == [t |-> "str", s |-> s]

Arr(items) == [t |-> "arr", a |-> items]

Obj(entries) == [t |-> "obj", o |-> entries]

EmptyObj == Obj(<<>>)

Entry(k, v) == [k |-> k, v |-> v]

is_primitive(v) == v.t \in {"null", "bool", "num", "str"}

\* Map::get: position of the entry with key k, 0 for None
MapIndex(m, k) ==
    IF \E i \in 1..Len(m) : m[i].k = k
    THEN CHOOSE i \in 1..Len(m) : m[i].k = k
    ELSE 0

\* Map::insert that moves an existing key to the end of the map
MapInsert_move_to_end(m, k, v) ==
    Append(SelectSeq(m, LAMBDA e : e.k # k), Entry(k, v))

\* Map::insert on an insertion-ordered map: a new key is appended, an
\* existing key keeps its position and takes the new value
MapInsert(m, k, v) ==
    LET i == MapIndex(m, k)
    IN  IF i = 0 THEN Append(m, Entry(k, v))
        ELSE [m EXCEPT ![i] = Entry(k, v)]

(***************************************************************************)
(* options.rs                                                              *)
(***************************************************************************)
Delimiters == {"Comma", "Tab", "Pipe"}

as_char(d) == IF d = "Comma" THEN "," ELSE IF d = "Tab" THEN "\t" ELSE "|"

bracket_suffix(d) ==
    IF d = "Comma" THEN <<>> ELSE IF d = "Tab" THEN <<"\t">> ELSE <<"|">>

separator(d) == <<as_char(d)>>

(***************************************************************************)
(* quoting.rs                                                              *)
(***************************************************************************)
is_identifier_key(key) ==
    /\ key # <<>>
    /\ key[1] \in Letters \cup {"_"}
    /\ \A i \in 2..Len(key) : key[i] \in Letters \cup Digits \cup {"_", "."}

is_identifier_segment(seg) ==
    /\ seg # <<>>
    /\ seg[1] \in Letters \cup {"_"}
    /\ \A i \in 2..Len(seg) : seg[i] \in Letters \cup Digits \cup {"_"}

escape_char(c) ==
    IF c = "\\" THEN <<"\\", "\\">>
    ELSE IF c = "\"" THEN <<"\\", "\"">>
    ELSE IF c = "\n" THEN <<"\\", "n">>
    ELSE IF c = "\r" THEN <<"\\", "r">>
    ELSE IF c = "\t" THEN <<"\\", "t">>
    ELSE <<c>>

escape(s) == Flatten([i \in 1..Len(s) |-> escape_char(s[i])])

Quoted(s) == <<"\"">> \o escape(s) \o <<"\"">>

encode_key(key) == IF is_identifier_key(key) THEN key ELSE Quoted(key)

\* serde_json::from_str::<Value> skips JSON whitespace around the value
is_numeric_like(s) ==
    \/ IsJsonNumber(Trim(s))
    \/ (Len(s) > 1 /\ s[1] = "0" /\ AllDigits(s))

\* needs_quotes without the numeric-like test: a bare "1" would be emitted
needs_quotes_no_numeric(s, delim) ==
    \/ s = <<>>
    \/ Trim(s) # s
    \/ s = <<"t","r","u","e">>
    \/ s = <<"f","a","l","s","e">>
    \/ s = <<"n","u","l","l">>
    \/ \E i \in 1..Len(s) : s[i] \in {":", "\"", "\\", "[", "]", "{", "}"}
    \/ \E i \in 1..Len(s) : s[i] \in {"\n", "\r", "\t"}
    \/ (s # <<>> /\ s[1] = "-")
    \/ Contains(s, as_char(delim))

needs_quotes(s, delim) ==
    \/ s = <<>>
    \/ Trim(s) # s
    \/ s = <<"t","r","u","e">>
    \/ s = <<"f","a","l","s","e">>
    \/ s = <<"n","u","l","l">>
    \/ is_numeric_like(s)
    \/ \E i \in 1..Len(s) : s[i] \in {":", "\"", "\\", "[", "]", "{", "}"}
    \/ \E i \in 1..Len(s) : s[i] \in {"\n", "\r", "\t"}
    \/ s[1] = "-"
    \/ Contains(s, as_char(delim))

encode_string(s, delim) == IF needs_quotes(s, delim) THEN Quoted(s) ELSE s

(***************************************************************************)
(* decoder.rs: tokens                                                      *)
(***************************************************************************)
\* Result<String, String> of the token parsers; "abort" is a panic
TokOk(s) == [st |-> "ok", s |-> s]

TokErr(msg) == [st |-> "err", msg |-> msg]

TokAbort == [st |-> "abort"]

\* the loop of parse_quoted_string over the characters between the quotes
RECURSIVE Unescape(_, _)
Unescape(inner, out) ==
    IF inner = <<>> THEN TokOk(out)
    ELSE IF Head(inner) = "\\"
    THEN IF Len(inner) = 1 THEN TokErr("unterminated escape")
         ELSE LET e == inner[2]
              IN  IF e = "\\" THEN Unescape(From(inner, 3), Append(out, "\\"))
                  ELSE IF e = "\"" THEN Unescape(From(inner, 3), Append(out, "\""))
                  ELSE IF e = "n" THEN Unescape(From(inner, 3), Append(out, "\n"))
                  ELSE IF e = "r" THEN Unescape(From(inner, 3), Append(out, "\r"))
                  ELSE IF e = "t" THEN Unescape(From(inner, 3), Append(out, "\t"))
                  ELSE TokErr("unsupported escape")
    ELSE Unescape(Tail(inner), Append(out, Head(inner)))

\* raw starts with '"' at every call.  raw[1..raw.len() - 1] panics when raw
\* is the single character '"': the slice would start after its end.
parse_quoted_string(raw) ==
    IF ~EndsWithCh(raw, "\"") THEN TokErr("unterminated string")
    ELSE IF Len(raw) < 2 THEN TokAbort
    ELSE Unescape(SubSeq(raw, 2, Len(raw) - 1), <<>>)

parse_key_token(raw) ==
    IF raw # <<>> /\ raw[1] = "\"" THEN parse_quoted_string(raw)
    ELSE IF raw = <<>> THEN TokErr("key cannot be empty")
    ELSE TokOk(raw)

is_numeric_literal(token) ==
    /\ token # <<>>
    /\ ~(token[1] = "0" /\ Len(token) > 1 /\ AllDigits(token))
    /\ IsJsonNumber(token)

\* Number::from_str on a token of the JSON number grammar: an integer
\* literal is kept as an integer, except "-0" which serde_json reads as the
\* float -0.0; a literal with a fraction or an exponent is a float
NumberFromStr(token) ==
    IF token[1] = "-"
    THEN IF AllDigits(Tail(token)) /\ Tail(token) # <<"0">>
         THEN NumInt(0 - DecToNat(Tail(token)))
         ELSE NumFloat(token)
    ELSE IF AllDigits(token) THEN NumInt(DecToNat(token)) ELSE NumFloat(token)

\* Result<Value, String>
PrimOk(v) == [st |-> "ok", v |-> v]

parse_primitive_token(token) ==
    IF token # <<>> /\ token[1] = "\""
    THEN LET q == parse_quoted_string(token)
         IN  IF q.st = "ok" THEN PrimOk(Str(q.s)) ELSE q
    ELSE IF token = <<"t","r","u","e">> THEN PrimOk(Bool(TRUE))
    ELSE IF token = <<"f","a","l","s","e">> THEN PrimOk(Bool(FALSE))
    ELSE IF token = <<"n","u","l","l">> THEN PrimOk(Null)
    ELSE IF is_numeric_literal(token) THEN PrimOk(NumberFromStr(token))
    ELSE PrimOk(Str(token))

(***************************************************************************)
(* decoder.rs: results.  A decoding error keeps the line number of its     *)
(* "line N:" prefix; NoLine stands for a message without that prefix.      *)
(* mm is a history flag of the model: some array consumed so far has a     *)
(* declared length that differs from the number of values, rows or items   *)
(* read for it.                                                            *)
(***************************************************************************)
NoLine == 0

DOk(v, i, mm) == [st |-> "ok", v |-> v, i |-> i, mm |-> mm]

DErr(ln, kind) == [st |-> "err", ln |-> ln, kind |-> kind]

\* "line {ln}: expected {expected} values|rows|list items but found {found}"
DLenErr(ln, kind, expected, found) ==
    [st |-> "err", ln |-> ln, kind |-> kind, expected |-> expected, found |-> found]

DAbort == [st |-> "abort"]

\* map_err(|err| decoding(format!("line {n}: {err}"))) on a token result
TokFail(q, n) == IF q.st = "abort" THEN DAbort ELSE DErr(n, q.msg)

(***************************************************************************)
(* decoder.rs: Decoder::new, the line tokenizer                            *)
(***************************************************************************)
StripCR(s) == IF EndsWithCh(s, "\r") THEN SubSeq(s, 1, Len(s) - 1) ELSE s

\* str::lines(): split after every "\n"; a line that ended in "\n" also
\* loses a "\r" before it; no empty last line after a final "\n"
RECURSIVE SplitLines(_, _)
SplitLines(s, cur) ==
    IF s = <<>> THEN (IF cur = <<>> THEN <<>> ELSE <<cur>>)
    ELSE IF Head(s) = "\n" THEN <<StripCR(cur)>> \o SplitLines(Tail(s), <<>>)
    ELSE SplitLines(Tail(s), Append(cur, Head(s)))

\* the loop over raw.chars(): the number of leading spaces, -1 for a tab
RECURSIVE IndentScan(_, _)
IndentScan(raw, i) ==
    IF i > Len(raw) THEN i - 1
    ELSE IF raw[i] = " " THEN IndentScan(raw, i + 1)
    ELSE IF raw[i] = "\t" THEN 0 - 1
    ELSE i - 1

\* Line with the 0-based idx of the loop in place of line_number = idx + 1
Line_zero_based(depth, txt, number) ==
    [depth |-> depth, text |-> txt, number |-> number - 1]

Line(depth, txt, number) == [depth |-> depth, text |-> txt, number |-> number]

RECURSIVE TokenizeFrom(_, _, _, _)
TokenizeFrom(raws, n, indent, acc) ==
    IF n > Len(raws) THEN [st |-> "ok", lines |-> acc]
    ELSE LET raw == raws[n]
             ic == IndentScan(raw, 1)
             txt == TrimEnd(From(raw, ic + 1))
         IN  IF Trim(raw) = <<>> THEN TokenizeFrom(raws, n + 1, indent, acc)
             ELSE IF ic < 0 THEN DErr(n, "tabs are not allowed for indentation")
             ELSE IF indent = 0 THEN DAbort
             ELSE IF ic % indent # 0 THEN DErr(n, "indentation must be a multiple")
             ELSE IF txt = <<>> THEN TokenizeFrom(raws, n + 1, indent, acc)
             ELSE TokenizeFrom(raws, n + 1, indent,
                               Append(acc, Line(ic \div indent, txt, n)))

Tokenize(input, indent) == TokenizeFrom(SplitLines(input, <<>>), 1, indent, <<>>)

(***************************************************************************)
(* decoder.rs: scanners of one line                                        *)
(***************************************************************************)
\* the loop of split_key_value: position of the first ':' outside quotes
RECURSIVE KeyValueScan(_, _, _, _)
KeyValueScan(s, i, inq, esc) ==
    IF i > Len(s) THEN 0
    ELSE IF s[i] = "\"" /\ ~esc THEN KeyValueScan(s, i + 1, ~inq, FALSE)
    ELSE IF s[i] = "\\" /\ inq THEN KeyValueScan(s, i + 1, inq, ~esc)
    ELSE IF s[i] = ":" /\ ~inq THEN i
    ELSE KeyValueScan(s, i + 1, inq, FALSE)

split_key_value(s) ==
    LET p == KeyValueScan(s, 1, FALSE, FALSE)
    IN  IF p = 0 THEN [some |-> FALSE]
        ELSE [some |-> TRUE,
              key |-> TrimEnd(SubSeq(s, 1, p - 1)),
              rest |-> TrimStart(From(s, p + 1))]

\* the loop of split_delimited
RECURSIVE SplitScan(_, _, _, _, _, _)
SplitScan(s, i, sep, cur, inq, acc) ==
    IF i > Len(s) THEN Append(acc, Trim(cur))
    ELSE IF s[i] = "\"" THEN SplitScan(s, i + 1, sep, Append(cur, s[i]), ~inq, acc)
    ELSE IF s[i] = "\\" /\ inq
    THEN IF i + 1 <= Len(s)
         THEN SplitScan(s, i + 2, sep, cur \o <<s[i], s[i + 1]>>, inq, acc)
         ELSE SplitScan(s, i + 1, sep, Append(cur, s[i]), inq, acc)
    ELSE IF ~inq /\ s[i] = sep
    THEN SplitScan(s, i + 1, sep, <<>>, inq, Append(acc, Trim(cur)))
    ELSE SplitScan(s, i + 1, sep, Append(cur, s[i]), inq, acc)

split_delimited(s, delim) == SplitScan(s, 1, as_char(delim), <<>>, FALSE, <<>>)

\* the loop of is_tabular_row_line: <<first_delim, first_colon>>, 0 for None
RECURSIVE RowScan(_, _, _, _, _, _, _)
RowScan(s, i, sep, inq, esc, fd, fc) ==
    IF i > Len(s) \/ (fd # 0 /\ fc # 0) THEN <<fd, fc>>
    ELSE IF inq
    THEN IF esc THEN RowScan(s, i + 1, sep, inq, FALSE, fd, fc)
         ELSE IF s[i] = "\\" THEN RowScan(s, i + 1, sep, inq, TRUE, fd, fc)
         ELSE IF s[i] = "\"" THEN RowScan(s, i + 1, sep, FALSE, esc, fd, fc)
         ELSE RowScan(s, i + 1, sep, inq, esc, fd, fc)
    ELSE IF s[i] = "\"" THEN RowScan(s, i + 1, sep, TRUE, esc, fd, fc)
    ELSE IF s[i] = ":"
    THEN RowScan(s, i + 1, sep, inq, esc, fd, IF fc = 0 THEN i ELSE fc)
    ELSE IF s[i] = sep
    THEN RowScan(s, i + 1, sep, inq, esc, IF fd = 0 THEN i ELSE fd, fc)
    ELSE RowScan(s, i + 1, sep, inq, esc, fd, fc)

is_tabular_row_line(s, delim) ==
    LET r == RowScan(s, 1, as_char(delim), FALSE, FALSE, 0, 0)
    IN  IF r[2] = 0 THEN TRUE
        ELSE IF r[1] = 0 THEN FALSE
        ELSE r[1] < r[2]

(***************************************************************************)
(* decoder.rs: parse_header                                                *)
(***************************************************************************)
\* Result<Vec<String>, ToonifyError>: the error message has no line prefix
RECURSIVE FieldListFrom(_, _, _)
FieldListFrom(raws, n, acc) ==
    LET WithKey(q) ==
            IF q.st = "ok" THEN FieldListFrom(raws, n + 1, Append(acc, q.s))
            ELSE IF q.st = "abort" THEN DAbort
            ELSE DErr(NoLine, "invalid field name")
    IN  IF n > Len(raws) THEN [st |-> "ok", fields |-> acc]
        ELSE WithKey(parse_key_token(Trim(raws[n])))

parse_field_list(segment, delim) ==
    FieldListFrom(split_delimited(segment, delim), 1, <<>>)

\* str::parse::<usize>(): an optional '+' and at least one ASCII digit
ParseUsize(s) ==
    LET body == IF s # <<>> /\ s[1] = "+" THEN Tail(s) ELSE s
    IN  IF body # <<>> /\ AllDigits(body)
        THEN [some |-> TRUE, n |-> DecToNat(body)]
        ELSE [some |-> FALSE]

HNone == [st |-> "ok", some |-> FALSE]

HSome(h) == [st |-> "ok", some |-> TRUE, h |-> h]

\* the part of parse_header after the key: the bracket, the field list and
\* the inline values
HeaderEnd(hasKey, key, len, delimiter, hasFields, fields, remainder, after, line) ==
    IF remainder # <<>> THEN DErr(line, "unexpected content after array header")
    ELSE HSome([hasKey |-> hasKey, key |-> key, len |-> len,
                delimiter |-> delimiter,
                hasFields |-> hasFields, fields |-> fields,
                hasInline |-> after # <<>>, inline |-> after,
                line |-> line])

\* the field list of parse_header; remainder is what follows the bracket
HeaderFields(hasKey, key, len, delimiter, remainder, after, line) ==
    LET closing_brace == Find(remainder, "}")
        WithList(fl) ==
            IF fl.st # "ok" THEN fl
            ELSE HeaderEnd(hasKey, key, len, delimiter, TRUE, fl.fields,
                           TrimStart(From(remainder, closing_brace + 1)),
                           after, line)
    IN  IF ~(remainder # <<>> /\ remainder[1] = "{")
        THEN HeaderEnd(hasKey, key, len, delimiter, FALSE, <<>>, remainder,
                       after, line)
        ELSE IF closing_brace = 0 THEN DErr(line, "missing '}' in field list")
        ELSE WithList(parse_field_list(SubSeq(remainder, 2, closing_brace - 1),
                                       delimiter))

\* the bracket of parse_header: the delimiter mark and the length
HeaderBracket(hasKey, key, bracket_inner, remainder, after, line) ==
    LET delimiter == IF EndsWithCh(bracket_inner, "|") THEN "Pipe"
                     ELSE IF EndsWithCh(bracket_inner, "\t") THEN "Tab"
                     ELSE "Comma"
        WithLen(len) ==
            IF ~len.some THEN DErr(line, "invalid array length")
            ELSE HeaderFields(hasKey, key, len.n, delimiter, remainder, after, line)
    IN  WithLen(ParseUsize(IF delimiter = "Comma" THEN bracket_inner
                           ELSE SubSeq(bracket_inner, 1, Len(bracket_inner) - 1)))

HeaderTail(hasKey, key, bracket_part, after, line) ==
    LET closing == Find(bracket_part, "]")
    IN  IF closing = 0 THEN DErr(line, "missing closing ']'")
        ELSE HeaderBracket(hasKey, key,
                           Trim(SubSeq(bracket_part, 2, closing - 1)),
                           TrimStart(From(bracket_part, closing + 1)),
                           after, line)

parse_header(s, expect_key, line) ==
    LET colon_idx == Find(s, ":")
        WithColon(before, after) ==
            LET bracket_idx == RFind(before, "[")
                WithKey(q) ==
                    IF q.st # "ok" THEN TokFail(q, line)
                    ELSE HeaderTail(TRUE, q.s, From(before, bracket_idx), after, line)
            IN  IF ~Contains(before, "[") THEN HNone
                ELSE IF bracket_idx = 1
                THEN IF expect_key
                     THEN DErr(line, "array header must include a key")
                     ELSE HeaderTail(FALSE, <<>>, before, after, line)
                ELSE WithKey(parse_key_token(
                                 TrimEnd(SubSeq(before, 1, bracket_idx - 1))))
    IN  IF colon_idx = 0 THEN HNone
        ELSE WithColon(TrimEnd(SubSeq(s, 1, colon_idx - 1)),
                       TrimStart(From(s, colon_idx + 1)))

\* Decoder::try_parse_header
try_parse_header(line, expect_key) ==
    IF ~Contains(line.text, "[") THEN HNone
    ELSE parse_header(line.text, expect_key, line.number)

(***************************************************************************)
(* decoder.rs: the productions.  L is Decoder.lines, S is options.strict   *)
(* and i is the cursor: the 1-based position of the next line, so that     *)
(* Decoder.index = i - 1 and peek_line() is None when i > Len(L).          *)
(***************************************************************************)
RECURSIVE Production(_)

\* self.parse_object(depth), self.consume_field(..) and the other calls of
\* one production by another.  Production, which follows the productions,
\* applies the production that the call names to the arguments of the call.
self_parse_object(L, S, i, depth) ==
    Production([op |-> "parse_object", L |-> L, S |-> S, i |-> i, depth |-> depth])

self_consume_field(L, S, i, map, depth) ==
    Production([op |-> "consume_field", L |-> L, S |-> S, i |-> i, map |-> map,
                depth |-> depth])

self_parse_value_block(L, S, i, depth) ==
    Production([op |-> "parse_value_block", L |-> L, S |-> S, i |-> i,
                depth |-> depth])

self_consume_array(L, S, i, h, container_depth) ==
    Production([op |-> "consume_array", L |-> L, S |-> S, i |-> i, h |-> h,
                depth |-> container_depth])

self_parse_inline_object_in_list(L, S, i, inline, row_depth, line_number) ==
    Production([op |-> "parse_inline_object_in_list", L |-> L, S |-> S, i |-> i,
                inline |-> inline, depth |-> row_depth, number |-> line_number])


\* the loop of parse_inline_array over the cells
RECURSIVE InlineCells(_, _, _, _)
InlineCells(cells, n, line, out) ==
    LET WithCell(q) ==
            IF q.st = "ok" THEN InlineCells(cells, n + 1, line, Append(out, q.v))
            ELSE TokFail(q, line)
    IN  IF n > Len(cells) THEN [st |-> "ok", a |-> out]
        ELSE WithCell(parse_primitive_token(Trim(cells[n])))

\* parse_inline_array without the strict test of cells.len() against len
parse_inline_array_unchecked(S, i, len, delim, values, line) ==
    LET WithCells(cells) ==
            LET WithValues(r) ==
                    IF r.st # "ok" THEN r ELSE DOk(Arr(r.a), i, Len(cells) # len)
            IN  WithValues(InlineCells(cells, 1, line, <<>>))
    IN  WithCells(split_delimited(values, delim))

parse_inline_array(S, i, len, delim, values, line) ==
    LET WithCells(cells) ==
            LET WithValues(r) ==
                    IF r.st # "ok" THEN r ELSE DOk(Arr(r.a), i, Len(cells) # len)
            IN  IF S /\ Len(cells) # len
                THEN DLenErr(line, "expected values", len, Len(cells))
                ELSE WithValues(InlineCells(cells, 1, line, <<>>))
    IN  WithCells(split_delimited(values, delim))

\* the loop of parse_tabular_array over the header's fields, for one row
RECURSIVE RowCells(_, _, _, _, _)
RowCells(fields, cells, n, line, map) ==
    LET WithCell(q) ==
            IF q.st = "ok"
            THEN RowCells(fields, cells, n + 1, line, MapInsert(map, fields[n], q.v))
            ELSE TokFail(q, line)
    IN  IF n > Len(fields) THEN [st |-> "ok", m |-> map]
        ELSE WithCell(parse_primitive_token(
                          IF n <= Len(cells) THEN Trim(cells[n]) ELSE <<>>))

RECURSIVE parse_tabular_loop(_, _, _, _, _, _)
parse_tabular_loop(L, S, i, h, row_depth, rows) ==
    LET line == L[i]
        WithCells(cells) ==
            LET WithRow(r) ==
                    IF r.st # "ok" THEN r
                    ELSE parse_tabular_loop(L, S, i + 1, h, row_depth,
                                            Append(rows, Obj(r.m)))
            IN  IF S /\ Len(cells) # Len(h.fields)
                THEN DErr(line.number, "expected cells")
                ELSE WithRow(RowCells(h.fields, cells, 1, line.number, <<>>))
    IN  IF i > Len(L) \/ line.depth # row_depth
           \/ ~is_tabular_row_line(line.text, h.delimiter)
        THEN IF S /\ Len(rows) # h.len
             THEN DLenErr(h.line, "expected rows", h.len, Len(rows))
             ELSE DOk(Arr(rows), i, Len(rows) # h.len)
        ELSE WithCells(split_delimited(line.text, h.delimiter))

parse_tabular_array(L, S, i, h, container_depth) ==
    parse_tabular_loop(L, S, i, h, container_depth + 1, <<>>)

\* the while loops of parse_list_array and parse_inline_object_in_list
\* over the sibling fields of a list item
RECURSIVE sibling_loop(_, _, _, _, _, _)
sibling_loop(L, S, i, map, depth, mm) ==
    LET WithField(r) ==
            IF r.st # "ok" THEN r
            ELSE sibling_loop(L, S, r.i, r.v, depth, mm \/ r.mm)
    IN  IF i > Len(L) \/ L[i].depth # depth THEN DOk(Obj(map), i, mm)
        ELSE WithField(self_consume_field(L, S, i, map, depth))

\* one list item: the body of the loop of parse_list_array after the "- "
\* test; i is the cursor after the item's line
ListItem(L, S, i, line, row_depth) ==
    LET remainder == Trim(From(line.text, 3))
        WithObject(o) == IF o.st # "ok" THEN o ELSE DOk(Obj(o.v), o.i, o.mm)
        WithPrimitive(q) ==
            IF q.st # "ok" THEN TokFail(q, line.number) ELSE DOk(q.v, i, FALSE)
        WithHeader(sub) ==
            LET WithArray(nested) ==
                    IF nested.st # "ok" THEN nested
                    ELSE IF sub.h.hasKey
                    THEN sibling_loop(L, S, nested.i,
                                      <<Entry(sub.h.key, nested.v)>>,
                                      row_depth + 1, nested.mm)
                    ELSE nested
            IN  IF sub.st # "ok" THEN sub
                ELSE IF sub.some
                \* consume_nested_header: the key is dropped from the header
                THEN WithArray(self_consume_array(
                                   L, S, i,
                                   [sub.h EXCEPT !.hasKey = FALSE, !.key = <<>>],
                                   row_depth))
                ELSE IF Contains(remainder, ":")
                THEN self_parse_inline_object_in_list(L, S, i, remainder,
                                                      row_depth, line.number)
                ELSE WithPrimitive(parse_primitive_token(remainder))
    IN  IF remainder = <<>>
        THEN WithObject(self_parse_object(L, S, i, row_depth + 1))
        ELSE WithHeader(parse_header(remainder, FALSE, line.number))

RECURSIVE parse_list_loop(_, _, _, _, _, _)
parse_list_loop(L, S, i, h, row_depth, acc) ==
    LET line == L[i]
        WithItem(r) ==
            IF r.st # "ok" THEN r
            ELSE parse_list_loop(L, S, r.i, h, row_depth,
                                 [items |-> Append(acc.items, r.v),
                                  mm |-> acc.mm \/ r.mm])
    IN  IF i > Len(L) \/ line.depth # row_depth
        THEN IF S /\ Len(acc.items) # h.len
             THEN DLenErr(h.line, "expected list items", h.len, Len(acc.items))
             ELSE DOk(Arr(acc.items), i, acc.mm \/ Len(acc.items) # h.len)
        ELSE IF ~StartsWith(line.text, <<"-", " ">>)
        THEN DErr(line.number, "expected '-' to start list item")
        ELSE WithItem(ListItem(L, S, i + 1, line, row_depth))

parse_list_array(L, S, i, h, container_depth) ==
    parse_list_loop(L, S, i, h, container_depth + 1, [items |-> <<>>, mm |-> FALSE])

consume_array(L, S, i, h, container_depth) ==
    IF h.hasInline /\ h.inline # <<>>
    THEN parse_inline_array(S, i, h.len, h.delimiter, h.inline, h.line)
    ELSE IF h.hasFields THEN parse_tabular_array(L, S, i, h, container_depth)
    ELSE parse_list_array(L, S, i, h, container_depth)

\* a keyed array header line inside an object: parse_object 131-142 and
\* consume_field 159-167; i is the cursor at the header line
KeyedArray(L, S, i, h, map, depth) ==
    LET WithArray(r) ==
            IF r.st # "ok" THEN r ELSE DOk(MapInsert(map, h.key, r.v), r.i, r.mm)
    IN  IF ~h.hasKey THEN DErr(L[i].number, "array header requires a key")
        ELSE WithArray(self_consume_array(L, S, i + 1, h, depth))

\* Decoder::parse_object: the result value is the map
RECURSIVE parse_object_loop(_, _, _, _, _, _)
parse_object_loop(L, S, i, depth, map, mm) ==
    LET WithField(r) ==
            IF r.st # "ok" THEN r
            ELSE parse_object_loop(L, S, r.i, depth, r.v, mm \/ r.mm)
        WithHeader(th) ==
            IF th.st # "ok" THEN th
            ELSE WithField(IF th.some THEN KeyedArray(L, S, i, th.h, map, depth)
                           ELSE self_consume_field(L, S, i, map, depth))
    IN  IF i > Len(L) \/ L[i].depth # depth THEN DOk(map, i, mm)
        ELSE WithHeader(try_parse_header(L[i], TRUE))

parse_object(L, S, i, depth) == parse_object_loop(L, S, i, depth, <<>>, FALSE)

\* Decoder::consume_field: the result value is the map with the field added
consume_field(L, S, i, map, depth) ==
    LET line == L[i]
        WithBlock(key, block) ==
            IF block.st # "ok" THEN block
            ELSE DOk(MapInsert(map, key, block.v), block.i, block.mm)
        WithPrimitive(key, q) ==
            IF q.st # "ok" THEN TokFail(q, line.number)
            ELSE DOk(MapInsert(map, key, q.v), i + 1, FALSE)
        WithKey(key, rest) ==
            IF key.st # "ok" THEN TokFail(key, line.number)
            ELSE IF rest = <<>>
            THEN IF i + 1 > Len(L) \/ L[i + 1].depth <= depth
                 THEN DOk(MapInsert(map, key.s, EmptyObj), i + 1, FALSE)
                 ELSE WithBlock(key.s,
                                self_parse_value_block(L, S, i + 1, depth + 1))
            ELSE WithPrimitive(key.s, parse_primitive_token(rest))
        WithPair(kv) ==
            IF ~kv.some THEN DErr(line.number, "expected key: value")
            ELSE WithKey(parse_key_token(kv.key), Trim(kv.rest))
        WithHeader(ph) ==
            IF ph.st # "ok" THEN ph
            ELSE IF ph.some THEN KeyedArray(L, S, i, ph.h, map, depth)
            ELSE WithPair(split_key_value(line.text))
    IN  IF i > Len(L) THEN DErr(NoLine, "unexpected end of document")
        ELSE WithHeader(parse_header(line.text, TRUE, line.number))

parse_value_block(L, S, i, depth) ==
    LET line == L[i]
        WithHeader(ph) ==
            IF ph.st # "ok" THEN ph
            ELSE IF ~ph.some THEN DErr(line.number, "expected array header")
            ELSE self_consume_array(L, S, i + 1, ph.h, depth - 1)
        WithObject(o) == IF o.st # "ok" THEN o ELSE DOk(Obj(o.v), o.i, o.mm)
        WithPrimitive(q) ==
            IF q.st # "ok" THEN TokFail(q, line.number) ELSE DOk(q.v, i + 1, FALSE)
    IN  IF i > Len(L) THEN DOk(Null, i, FALSE)
        ELSE IF line.depth # depth THEN DOk(EmptyObj, i, FALSE)
        ELSE IF line.text[1] = "["
        THEN WithHeader(parse_header(line.text, FALSE, line.number))
        ELSE IF split_key_value(line.text).some
        THEN WithObject(self_parse_object(L, S, i, depth))
        ELSE WithPrimitive(parse_primitive_token(Trim(line.text)))

\* i is the cursor after the item's line
parse_inline_object_in_list(L, S, i, inline, row_depth, line_number) ==
    LET WithBlock(key, block) ==
            IF block.st # "ok" THEN block
            ELSE sibling_loop(L, S, block.i, <<Entry(key, block.v)>>,
                              row_depth + 1, block.mm)
        WithPrimitive(key, q) ==
            IF q.st # "ok" THEN TokFail(q, line_number)
            ELSE sibling_loop(L, S, i, <<Entry(key, q.v)>>, row_depth + 1, FALSE)
        WithKey(key, rest) ==
            IF key.st # "ok" THEN TokFail(key, line_number)
            ELSE IF rest = <<>>
            THEN WithBlock(key.s, self_parse_value_block(L, S, i, row_depth + 2))
            ELSE WithPrimitive(key.s, parse_primitive_token(rest))
        WithPair(kv) ==
            IF ~kv.some THEN DErr(line_number, "invalid list object syntax")
            ELSE WithKey(parse_key_token(kv.key), Trim(kv.rest))
    IN  WithPair(split_key_value(inline))

Production(c) ==
    CASE c.op = "parse_object" -> parse_object(c.L, c.S, c.i, c.depth)
      [] c.op = "consume_field" -> consume_field(c.L, c.S, c.i, c.map, c.depth)
      [] c.op = "parse_value_block" -> parse_value_block(c.L, c.S, c.i, c.depth)
      [] c.op = "consume_array" -> consume_array(c.L, c.S, c.i, c.h, c.depth)
      [] c.op = "parse_inline_object_in_list" ->
             parse_inline_object_in_list(c.L, c.S, c.i, c.inline, c.depth, c.number)

\* parse_root with the cursor of a primitive root set one past self.lines.len()
parse_root_past_end(L, S) ==
    LET first == L[1]
        WithHeader(ph) ==
            IF ph.st # "ok" THEN ph
            ELSE IF ~ph.some THEN DErr(first.number, "expected array header")
            ELSE self_consume_array(L, S, 2, ph.h, 0)
        WithPrimitive(q) ==
            IF q.st # "ok" THEN TokFail(q, first.number)
            ELSE DOk(q.v, Len(L) + 2, FALSE)
        WithObject(o) == IF o.st # "ok" THEN o ELSE DOk(Obj(o.v), o.i, o.mm)
    IN  IF L = <<>> THEN DOk(EmptyObj, 1, FALSE)
        ELSE IF first.text[1] = "["
        THEN WithHeader(parse_header(first.text, FALSE, first.number))
        ELSE IF ~Contains(first.text, ":")
        THEN WithPrimitive(parse_primitive_token(Trim(first.text)))
        ELSE WithObject(self_parse_object(L, S, 1, 0))

\* Decoder::parse_root
parse_root(L, S) ==
    LET first == L[1]
        WithHeader(ph) ==
            IF ph.st # "ok" THEN ph
            ELSE IF ~ph.some THEN DErr(first.number, "expected array header")
            ELSE self_consume_array(L, S, 2, ph.h, 0)
        WithPrimitive(q) ==
            IF q.st # "ok" THEN TokFail(q, first.number)
            ELSE DOk(q.v, Len(L) + 1, FALSE)
        WithObject(o) == IF o.st # "ok" THEN o ELSE DOk(Obj(o.v), o.i, o.mm)
    IN  IF L = <<>> THEN DOk(EmptyObj, 1, FALSE)
        ELSE IF first.text[1] = "["
        THEN WithHeader(parse_header(first.text, FALSE, first.number))
        ELSE IF ~Contains(first.text, ":")
        THEN WithPrimitive(parse_primitive_token(Trim(first.text)))
        ELSE WithObject(self_parse_object(L, S, 1, 0))

(***************************************************************************)
(* decoder.rs: path expansion                                              *)
(***************************************************************************)
\* str::split(c)
RECURSIVE SplitOn(_, _, _)
SplitOn(s, c, cur) ==
    IF s = <<>> THEN <<cur>>
    ELSE IF Head(s) = c THEN <<cur>> \o SplitOn(Tail(s), c, <<>>)
    ELSE SplitOn(Tail(s), c, Append(cur, Head(s)))

MOk(m) == [st |-> "ok", m |-> m]

\* the error messages of insert_segments have no line prefix
RECURSIVE insert_segments(_, _, _, _)
insert_segments(current, segments, v, strict) ==
    LET idx == MapIndex(current, segments[1])
        \* entry(..).or_insert_with(|| Object(Map::new()))
        cur1 == IF idx = 0 THEN Append(current, Entry(segments[1], EmptyObj))
                ELSE current
        j == IF idx = 0 THEN Len(cur1) ELSE idx
        entry == cur1[j].v
        r == insert_segments(IF entry.t = "obj" THEN entry.o ELSE <<>>,
                             Tail(segments), v, strict)
    IN  IF Len(segments) = 1
        THEN IF idx = 0 THEN MOk(Append(current, Entry(segments[1], v)))
             ELSE IF strict THEN DErr(NoLine, "expansion conflict")
             ELSE MOk([current EXCEPT ![idx] = Entry(segments[1], v)])
        ELSE IF entry.t # "obj" /\ strict
        THEN DErr(NoLine, "expansion conflict: expected object")
        ELSE IF r.st # "ok" THEN r
        ELSE MOk([cur1 EXCEPT ![j] = Entry(segments[1], Obj(r.m))])

insert_expanded(target, dotted, v, strict) ==
    insert_segments(target, SplitOn(dotted, ".", <<>>), v, strict)

IsDottedPath(key) ==
    LET segs == SplitOn(key, ".", <<>>)
    IN  Contains(key, ".") /\ \A n \in 1..Len(segs) : is_identifier_segment(segs[n])

VOk(v) == [st |-> "ok", v |-> v]

RECURSIVE expand_paths(_, _)
RECURSIVE ExpandEntries(_, _, _, _)
RECURSIVE ExpandItems(_, _, _, _)

\* the loop of expand_paths over the entries of an object
ExpandEntries(map, n, replacement, strict) ==
    LET WithInsert(ins) ==
            IF ins.st # "ok" THEN ins
            ELSE ExpandEntries(map, n + 1, ins.m, strict)
        WithValue(e) ==
            IF e.st # "ok" THEN e
            ELSE IF IsDottedPath(map[n].k)
            THEN WithInsert(insert_expanded(replacement, map[n].k, e.v, strict))
            ELSE ExpandEntries(map, n + 1, MapInsert(replacement, map[n].k, e.v),
                               strict)
    IN  IF n > Len(map) THEN VOk(Obj(replacement))
        ELSE WithValue(expand_paths(map[n].v, strict))

\* the loop of expand_paths over the items of an array
ExpandItems(items, n, out, strict) ==
    LET WithValue(e) ==
            IF e.st # "ok" THEN e
            ELSE ExpandItems(items, n + 1, Append(out, e.v), strict)
    IN  IF n > Len(items) THEN VOk(Arr(out))
        ELSE WithValue(expand_paths(items[n], strict))

expand_paths(v, strict) ==
    IF v.t = "obj" THEN ExpandEntries(v.o, 1, <<>>, strict)
    ELSE IF v.t = "arr" THEN ExpandItems(v.a, 1, <<>>, strict)
    ELSE VOk(v)

(***************************************************************************)
(* decoder.rs: decode_str, and validator.rs: validate_str                  *)
(***************************************************************************)
\* opts is DecoderOptions: [indent, strict, expand_paths]
decode_str(input, opts) ==
    LET WithExpanded(r, e) == IF e.st # "ok" THEN e ELSE DOk(e.v, r.i, r.mm)
        WithRoot(r) ==
            IF r.st # "ok" THEN r
            ELSE IF opts.expand_paths = "Safe"
            THEN WithExpanded(r, expand_paths(r.v, opts.strict))
            ELSE r
        WithLines(t) ==
            IF t.st # "ok" THEN t ELSE WithRoot(parse_root(t.lines, opts.strict))
    IN  WithLines(Tokenize(input, opts.indent))

\* decode_str_internal(input, options)?; Ok(())
\* validate_str that decodes with strict forced on, whatever the options say
validate_str_always_strict(input, opts) ==
    LET WithValue(r) == IF r.st = "ok" THEN [st |-> "ok"] ELSE r
    IN  WithValue(decode_str(input, [opts EXCEPT !.strict = TRUE]))

validate_str(input, opts) ==
    LET WithValue(r) == IF r.st = "ok" THEN [st |-> "ok"] ELSE r
    IN  WithValue(decode_str(input, opts))

(***************************************************************************)
(* encoder.rs.  O is EncoderOptions: [indent, document_delimiter,          *)
(* key_folding, flatten_depth], flatten_depth being [some, n].  A method   *)
(* that pushes to Encoder.lines returns the lines it pushes.               *)
(***************************************************************************)
EOk(ls) == [st |-> "ok", ls |-> ls]

EErr(msg) == [st |-> "err", msg |-> msg]

EAbort == [st |-> "abort"]

\* a; b with the ? operator: the lines of a then those of b
Then(a, b) ==
    IF a.st # "ok" THEN a
    ELSE IF b.st # "ok" THEN b
    ELSE EOk(a.ls \o b.ls)

\* canonicalize_number without the normalization of a zero
canonicalize_number_raw(v) ==
    IF v.k = "int" THEN IntToDec(v.n) ELSE v.lit

\* Encoder::canonicalize_number.  An integer is as_i64 / as_u64 to_string.
\* Of the floats only -0.0 is in the value sets of the model: its
\* to_string is "-0.0", which BigDecimal normalizes to zero.
canonicalize_number(v) ==
    IF v.k = "int" THEN IntToDec(v.n)
    ELSE IF v.lit = <<"-", "0">> THEN <<"0">>
    ELSE v.lit

stringify_primitive(v, delim) ==
    IF v.t = "null" THEN TokOk(<<"n","u","l","l">>)
    ELSE IF v.t = "bool"
    THEN TokOk(IF v.b THEN <<"t","r","u","e">> ELSE <<"f","a","l","s","e">>)
    ELSE IF v.t = "num" THEN TokOk(canonicalize_number(v))
    ELSE IF v.t = "str" THEN TokOk(encode_string(v.s, delim))
    ELSE TokErr("expected primitive value")

\* the collect::<Result<Vec<_>, _>>() over stringify_primitive
RECURSIVE StringifyAll(_, _, _, _)
StringifyAll(items, n, delim, out) ==
    LET WithCell(q) ==
            IF q.st # "ok" THEN EErr(q.msg)
            ELSE StringifyAll(items, n + 1, delim, Append(out, q.s))
    IN  IF n > Len(items) THEN [st |-> "ok", cells |-> out]
        ELSE WithCell(stringify_primitive(items[n], delim))

indent(O, depth) == Spaces(depth * O.indent)

format_header(hasKey, key, len, delim, hasFields, fields) ==
    LET bracket == <<"[">> \o NatToDec(len) \o bracket_suffix(delim) \o <<"]">>
        field_list == Join([n \in 1..Len(fields) |-> encode_key(fields[n])],
                           <<as_char(delim)>>)
        body == IF hasFields THEN bracket \o <<"{">> \o field_list \o <<"}", ":">>
                ELSE bracket \o <<":">>
    IN  IF hasKey THEN encode_key(key) \o body ELSE body

\* ArrayContext: [kind |-> "Normal" | "ListFirstField", depth]
Normal(depth) == [kind |-> "Normal", depth |-> depth]

ListFirstField(depth) == [kind |-> "ListFirstField", depth |-> depth]

header_depth(c) == IF c.kind = "Normal" THEN c.depth ELSE c.depth + 1

row_depth(c) == header_depth(c) + 1

header_prefix(c) == IF c.kind = "Normal" THEN <<>> ELSE <<"-", " ">>

\* usize::saturating_sub(1)
SatPred(n) == IF n = 0 THEN 0 ELSE n - 1

\* the header line of an array: indent, prefix, header
HeaderLine(O, c, header) == indent(O, header_depth(c)) \o header_prefix(c) \o header

\* detect_tabular that compares only the number of fields of the later
\* items with the first item's, without looking the fields up
detect_tabular_by_count(items) ==
    LET first == items[1]
        fields == [n \in 1..Len(first.o) |-> first.o[n].k]
    IN  IF items = <<>> THEN [some |-> FALSE]
        ELSE IF first.t # "obj" THEN [some |-> FALSE]
        ELSE IF first.o = <<>> THEN [some |-> FALSE]
        ELSE IF \E n \in 1..Len(first.o) : ~is_primitive(first.o[n].v)
        THEN [some |-> FALSE]
        ELSE IF \A m \in 2..Len(items) :
                   items[m].t = "obj" /\ Len(items[m].o) = Len(fields)
        THEN [some |-> TRUE, fields |-> fields]
        ELSE [some |-> FALSE]

\* Option<Vec<String>>: [some, fields]
detect_tabular(items) ==
    LET first == items[1]
        fields == [n \in 1..Len(first.o) |-> first.o[n].k]
    IN  IF items = <<>> THEN [some |-> FALSE]
        ELSE IF first.t # "obj" THEN [some |-> FALSE]
        ELSE IF first.o = <<>> THEN [some |-> FALSE]
        ELSE IF \E n \in 1..Len(first.o) : ~is_primitive(first.o[n].v)
        THEN [some |-> FALSE]
        ELSE IF \A m \in 2..Len(items) :
                   /\ items[m].t = "obj"
                   /\ Len(items[m].o) = Len(fields)
                   /\ \A n \in 1..Len(fields) :
                          /\ MapIndex(items[m].o, fields[n]) # 0
                          /\ is_primitive(items[m].o[MapIndex(items[m].o, fields[n])].v)
        THEN [some |-> TRUE, fields |-> fields]
        ELSE [some |-> FALSE]

is_array_of_primitive_arrays(items) ==
    /\ items # <<>>
    /\ \A m \in 1..Len(items) :
           /\ items[m].t = "arr"
           /\ \A n \in 1..Len(items[m].a) : is_primitive(items[m].a[n])

\* the loop of fold_key: [segments, current]
RECURSIVE FoldChain(_, _, _, _)
FoldChain(segments, current, bounded, max_segments) ==
    IF bounded /\ Len(segments) >= max_segments
    THEN [segments |-> segments, current |-> current]
    ELSE IF current.t = "obj" /\ Len(current.o) = 1
            /\ is_identifier_segment(current.o[1].k)
    THEN FoldChain(Append(segments, current.o[1].k), current.o[1].v,
                   bounded, max_segments)
    ELSE [segments |-> segments, current |-> current]

fold_key_unchecked(O, key, v, siblings) ==
    LET fd == O.flatten_depth
        WithChain(c) ==
            IF Len(c.segments) = 1 THEN [key |-> key, value |-> v]
            ELSE [key |-> Join(c.segments, <<".">>), value |-> c.current]
    IN  IF O.key_folding # "Safe" THEN [key |-> key, value |-> v]
        ELSE IF ~is_identifier_segment(key) THEN [key |-> key, value |-> v]
        ELSE WithChain(FoldChain(<<key>>, v, fd.some, IF fd.n < 1 THEN 1 ELSE fd.n))

\* FoldResult: [key, value].  flatten_depth None is usize::MAX segments,
\* which no chain of the model reaches: the loop is then unbounded.
fold_key(O, key, v, siblings) ==
    LET fd == O.flatten_depth
        WithChain(c) ==
            IF Len(c.segments) = 1 THEN [key |-> key, value |-> v]
            ELSE IF MapIndex(siblings, Join(c.segments, <<".">>)) # 0
                    /\ Join(c.segments, <<".">>) # key
            THEN [key |-> key, value |-> v]
            ELSE [key |-> Join(c.segments, <<".">>), value |-> c.current]
    IN  IF O.key_folding # "Safe" THEN [key |-> key, value |-> v]
        ELSE IF ~is_identifier_segment(key) THEN [key |-> key, value |-> v]
        ELSE WithChain(FoldChain(<<key>>, v, fd.some, IF fd.n < 1 THEN 1 ELSE fd.n))

RECURSIVE Method(_)

\* self.encode_array(..), self.encode_named_value(..) and the other calls of
\* one method of Encoder by another.  Method, which follows the methods,
\* applies the method that the call names to the arguments of the call.
self_encode_object_fields(O, map, depth) ==
    Method([op |-> "encode_object_fields", O |-> O, map |-> map, depth |-> depth])

self_encode_named_value(O, key, v, depth) ==
    Method([op |-> "encode_named_value", O |-> O, key |-> key, v |-> v,
            depth |-> depth])

self_encode_array(O, hasKey, key, items, c) ==
    Method([op |-> "encode_array", O |-> O, hasKey |-> hasKey, key |-> key,
            items |-> items, c |-> c])

self_encode_object_list_item(O, map, depth) ==
    Method([op |-> "encode_object_list_item", O |-> O, map |-> map,
            depth |-> depth])


\* "<indent><prefix><header>" or "<indent><prefix><header> <joined values>"
emit_inline_array(O, hasKey, key, items, delim, c) ==
    LET WithHeader(header) ==
            LET WithCells(r) ==
                    IF r.st # "ok" THEN r
                    ELSE EOk(<<header \o <<" ">> \o Join(r.cells, separator(delim))>>)
            IN  IF items = <<>> THEN EOk(<<header>>)
                ELSE WithCells(StringifyAll(items, 1, delim, <<>>))
    IN  WithHeader(HeaderLine(O, c, format_header(hasKey, key, Len(items), delim,
                                                  FALSE, <<>>)))

\* the cells of one row of emit_tabular_array; obj.get(field).expect(..)
\* panics when the field is missing
RECURSIVE TabularCells(_, _, _, _, _)
TabularCells(obj, fields, n, delim, out) ==
    LET idx == MapIndex(obj, fields[n])
        WithCell(q) ==
            IF q.st # "ok" THEN EErr(q.msg)
            ELSE TabularCells(obj, fields, n + 1, delim, Append(out, q.s))
    IN  IF n > Len(fields) THEN [st |-> "ok", cells |-> out]
        ELSE IF idx = 0 THEN EAbort
        ELSE WithCell(stringify_primitive(obj[idx].v, delim))

RECURSIVE TabularRows(_, _, _, _, _, _)
TabularRows(O, items, m, fields, delim, c) ==
    LET WithCells(r) ==
            IF r.st # "ok" THEN r
            ELSE Then(EOk(<<indent(O, row_depth(c))
                            \o Join(r.cells, separator(delim))>>),
                      TabularRows(O, items, m + 1, fields, delim, c))
    IN  IF m > Len(items) THEN EOk(<<>>)
        ELSE IF items[m].t # "obj"
        THEN EErr("tabular detection failed due to non-object row")
        ELSE WithCells(TabularCells(items[m].o, fields, 1, delim, <<>>))

emit_tabular_array(O, hasKey, key, items, fields, delim, c) ==
    LET header == format_header(hasKey, key, Len(items), delim, TRUE, fields)
    IN  Then(EOk(<<HeaderLine(O, c, header)>>),
             TabularRows(O, items, 1, fields, delim, c))

RECURSIVE InnerArrays(_, _, _, _, _)
InnerArrays(O, items, m, delim, c) ==
    LET WithRow(inner, row) ==
            LET WithCells(r) ==
                    IF r.st # "ok" THEN r
                    ELSE Then(EOk(<<row \o <<" ">>
                                    \o Join(r.cells, separator(delim))>>),
                              InnerArrays(O, items, m + 1, delim, c))
            IN  IF inner = <<>>
                THEN Then(EOk(<<row>>), InnerArrays(O, items, m + 1, delim, c))
                ELSE WithCells(StringifyAll(inner, 1, delim, <<>>))
    IN  IF m > Len(items) THEN EOk(<<>>)
        ELSE IF items[m].t # "arr" THEN EErr("expected inner array")
        ELSE WithRow(items[m].a,
                     indent(O, row_depth(c)) \o <<"-", " ">>
                     \o format_header(FALSE, <<>>, Len(items[m].a), delim,
                                      FALSE, <<>>))

emit_array_of_arrays(O, hasKey, key, items, delim, c) ==
    LET header == format_header(hasKey, key, Len(items), delim, FALSE, <<>>)
    IN  Then(EOk(<<HeaderLine(O, c, header)>>), InnerArrays(O, items, 1, delim, c))

\* the loop of emit_general_list over the items
RECURSIVE GeneralItems(_, _, _, _)
GeneralItems(O, items, m, row_indent_depth) ==
    LET item == items[m]
        WithPrimitive(q) ==
            IF q.st # "ok" THEN EErr(q.msg)
            ELSE EOk(<<indent(O, row_indent_depth) \o <<"-", " ">> \o q.s>>)
    IN  IF m > Len(items) THEN EOk(<<>>)
        ELSE Then(IF item.t = "obj"
                  THEN self_encode_object_list_item(O, item.o, row_indent_depth)
                  ELSE IF item.t = "arr"
                  THEN self_encode_array(O, FALSE, <<>>, item.a,
                                         ListFirstField(SatPred(row_indent_depth)))
                  ELSE WithPrimitive(stringify_primitive(item, O.document_delimiter)),
                  GeneralItems(O, items, m + 1, row_indent_depth))

emit_general_list(O, hasKey, key, items, delim, c) ==
    LET header == format_header(hasKey, key, Len(items), delim, FALSE, <<>>)
    IN  Then(EOk(<<HeaderLine(O, c, header)>>),
             GeneralItems(O, items, 1, row_depth(c)))

\* encode_array with the general list tested before the table and the
\* array of arrays
encode_array_list_first(O, hasKey, key, items, c) ==
    IF \A n \in 1..Len(items) : is_primitive(items[n])
    THEN emit_inline_array(O, hasKey, key, items, O.document_delimiter, c)
    ELSE emit_general_list(O, hasKey, key, items, O.document_delimiter, c)

encode_array(O, hasKey, key, items, c) ==
    LET delimiter == O.document_delimiter
        WithTabular(tab) ==
            IF tab.some
            THEN emit_tabular_array(O, hasKey, key, items, tab.fields, delimiter, c)
            ELSE IF is_array_of_primitive_arrays(items)
            THEN emit_array_of_arrays(O, hasKey, key, items, delimiter, c)
            ELSE emit_general_list(O, hasKey, key, items, delimiter, c)
    IN  IF \A n \in 1..Len(items) : is_primitive(items[n])
        THEN emit_inline_array(O, hasKey, key, items, delimiter, c)
        ELSE WithTabular(detect_tabular(items))

encode_named_value(O, key, v, depth) ==
    LET WithHead(head) ==
            LET WithPrimitive(q) ==
                    IF q.st # "ok" THEN EErr(q.msg)
                    ELSE EOk(<<head \o <<" ">> \o q.s>>)
            IN  IF v.t = "obj"
                THEN IF v.o = <<>> THEN EOk(<<head>>)
                     ELSE Then(EOk(<<head>>),
                               self_encode_object_fields(O, v.o, depth + 1))
                ELSE WithPrimitive(stringify_primitive(v, O.document_delimiter))
    IN  IF v.t = "arr" THEN self_encode_array(O, TRUE, key, v.a, Normal(depth))
        ELSE WithHead(indent(O, depth) \o encode_key(key) \o <<":">>)

\* the loop of encode_object_fields (from = 1) and the loop over the rest
\* of the fields in encode_object_list_item (from = 2)
RECURSIVE encode_object_fields_from(_, _, _, _)
encode_object_fields_from(O, map, n, depth) ==
    LET WithFold(f) ==
            Then(self_encode_named_value(O, f.key, f.value, depth),
                 encode_object_fields_from(O, map, n + 1, depth))
    IN  IF n > Len(map) THEN EOk(<<>>)
        ELSE WithFold(fold_key(O, map[n].k, map[n].v, map))

encode_object_fields(O, map, depth) == encode_object_fields_from(O, map, 1, depth)

encode_object_list_item(O, map, depth) ==
    LET WithFold(f) ==
            LET WithDash(dash) ==
                    LET WithPrimitive(q) ==
                            IF q.st # "ok" THEN EErr(q.msg)
                            ELSE EOk(<<dash \o <<" ">> \o q.s>>)
                    IN  IF f.value.t = "obj"
                        THEN IF f.value.o = <<>> THEN EOk(<<dash>>)
                             ELSE Then(EOk(<<dash>>),
                                       self_encode_object_fields(O, f.value.o,
                                                                 depth + 2))
                        ELSE WithPrimitive(stringify_primitive(
                                               f.value, O.document_delimiter))
            IN  Then(IF f.value.t = "arr"
                     THEN self_encode_array(O, TRUE, f.key, f.value.a,
                                            ListFirstField(SatPred(depth)))
                     ELSE WithDash(indent(O, depth) \o <<"-", " ">>
                                   \o encode_key(f.key) \o <<":">>),
                     encode_object_fields_from(O, map, 2, depth + 1))
    IN  IF map = <<>> THEN EOk(<<indent(O, depth) \o <<"-">>>>)
        ELSE WithFold(fold_key(O, map[1].k, map[1].v, map))

Method(c) ==
    CASE c.op = "encode_object_fields" -> encode_object_fields(c.O, c.map, c.depth)
      [] c.op = "encode_named_value" -> encode_named_value(c.O, c.key, c.v, c.depth)
      [] c.op = "encode_array" -> encode_array(c.O, c.hasKey, c.key, c.items, c.c)
      [] c.op = "encode_object_list_item" ->
             encode_object_list_item(c.O, c.map, c.depth)

encode_root(O, v) ==
    LET WithPrimitive(q) == IF q.st # "ok" THEN EErr(q.msg) ELSE EOk(<<q.s>>)
    IN  IF v.t = "obj"
        THEN IF v.o = <<>> THEN EOk(<<>>) ELSE self_encode_object_fields(O, v.o, 0)
        ELSE IF v.t = "arr" THEN self_encode_array(O, FALSE, <<>>, v.a, Normal(0))
        ELSE WithPrimitive(stringify_primitive(v, O.document_delimiter))

\* Result<String, ToonifyError>; finish() joins the lines with "\n"
encode_value(v, O) ==
    LET WithLines(r) ==
            IF r.st # "ok" THEN r ELSE [st |-> "ok", s |-> Join(r.ls, <<"\n">>)]
    IN  WithLines(encode_root(O, v))

(***************************************************************************)
(* The runs.  A run fixes its inputs in the initial state and then makes   *)
(* the calls one after the other; None marks a result not yet computed.    *)
(***************************************************************************)
None == [st |-> "none"]

NoFlatten == [some |-> FALSE, n |-> 0]

FlattenDepth(n) == [some |-> TRUE, n |-> n]

EncoderOptions(ind, delim, folding, fd) ==
    [indent |-> ind, document_delimiter |-> delim, key_folding |-> folding,
     flatten_depth |-> fd]

DecoderOptions(ind, strict, expand) ==
    [indent |-> ind, strict |-> strict, expand_paths |-> expand]

\* EncoderOptions::default() and DecoderOptions::default()
DefaultEncoderOptions == EncoderOptions(2, "Comma", "Off", NoFlatten)

DefaultDecoderOptions == DecoderOptions(2, TRUE, "Off")

\* all sequences over A of length at most n
SeqsUpTo(A, n) == UNION {[1..m -> A] : m \in 0..n}

(***************************************************************************)
(* Spec: encode_value followed by decode_str, on a bounded set of tree     *)
(* values and of options.                                                  *)
(***************************************************************************)
Keys == {<<"a">>, <<"b">>}

Prims == {Null, Bool(TRUE), NumInt(1), Str(<<"x">>)}

\* objects of one or two fields and arrays of one or two items over S
ObjsOver(S) ==
    {Obj(<<Entry(<<"a">>, v)>>) : v \in S}
        \cup {Obj(<<Entry(<<"a">>, v), Entry(<<"b">>, w)>>) : v \in S, w \in S}

ArrsOver(S) == {Arr(<<v>>) : v \in S} \cup {Arr(<<v, w>>) : v \in S, w \in S}

Level0 == Prims \cup {Arr(<<>>), EmptyObj}

Level1 == Level0 \cup ObjsOver(Level0) \cup ArrsOver(Level0)

\* one more level of nesting, and arrays of two small objects
Level2 ==
    {Obj(<<Entry(<<"a">>, v)>>) : v \in Level1}
        \cup {Arr(<<v>>) : v \in Level1}
        \cup ArrsOver(ObjsOver(Prims \ {Null}))
        \cup {Obj(<<Entry(<<"a">>, Obj(<<Entry(<<"b">>, v)>>))>>) : v \in Level1}

Values == Level1 \cup Level2

FoldingModes ==
    {[key_folding |-> "Off", flatten_depth |-> NoFlatten]}
        \cup {[key_folding |-> "Safe", flatten_depth |-> fd] :
                  fd \in {NoFlatten, FlattenDepth(0), FlattenDepth(2)}}

EncoderOptionsSet ==
    {EncoderOptions(2, d, f.key_folding, f.flatten_depth) :
         d \in Delimiters, f \in FoldingModes}

DecoderOptionsSet ==
    {DecoderOptions(2, s, e) : s \in BOOLEAN, e \in {"Off", "Safe"}}

\* every object key of v, at any depth, is an identifier segment
RECURSIVE KeysAreSegments(_)
KeysAreSegments(v) ==
    CASE v.t = "obj" ->
             \A n \in 1..Len(v.o) :
                 is_identifier_segment(v.o[n].k) /\ KeysAreSegments(v.o[n].v)
      [] v.t = "arr" -> \A n \in 1..Len(v.a) : KeysAreSegments(v.a[n])
      [] OTHER -> TRUE

Init ==
    /\ pc = "value"
    /\ value \in Values
    /\ eopts \in EncoderOptionsSet
    /\ dopts \in DecoderOptionsSet
    /\ doc = <<>> /\ text = <<>>
    /\ enc = None /\ res = None /\ vres = None /\ enc2 = None /\ res2 = None
    /\ str = <<>> /\ tok = <<>> /\ prim = None

\* let text = encode_value(&value, eopts)?
Encode ==
    /\ pc = "value"
    /\ enc' = encode_value(value, eopts)
    /\ text' = IF enc'.st = "ok" THEN enc'.s ELSE <<>>
    /\ pc' = IF enc'.st = "ok" THEN "encoded" ELSE "failed"
    /\ UNCHANGED <<value, eopts, doc, dopts, res, vres, enc2, res2, str, tok, prim>>

\* decode_str(&text, dopts)
Decode ==
    /\ pc = "encoded"
    /\ res' = decode_str(text, dopts)
    /\ pc' = "decoded"
    /\ UNCHANGED <<value, eopts, enc, doc, text, dopts, vres, enc2, res2, str, tok, prim>>

Next == Encode \/ Decode

Spec == Init /\ [][Next]_vars

RoundTrips == res.st = "ok" /\ res.v = value

\* C1: with key folding Off, path expansion Off, strict decoding and the
\* same indent on both sides, decoding the encoding of a tree value returns
\* that value.  Stated for the comma delimiter, which both sides agree on.
C1_RoundTrip ==
    (/\ pc = "decoded"
     /\ eopts.key_folding = "Off" /\ eopts.document_delimiter = "Comma"
     /\ dopts.expand_paths = "Off" /\ dopts.strict
     /\ eopts.indent = dopts.indent)
        => RoundTrips

\* the value is an array the encoder writes inline or as a table
InlineOrTabular(v) ==
    /\ v.t = "arr"
    /\ Len(v.a) >= 2
    /\ \/ \A n \in 1..Len(v.a) : is_primitive(v.a[n])
       \/ detect_tabular(v.a).some

\* C7: for every delimiter, an array of two or more primitives or of
\* uniform objects encoded with that delimiter decodes under strict mode
\* to the original array.
C7_DelimiterRecovered ==
    (/\ pc = "decoded"
     /\ InlineOrTabular(value)
     /\ eopts.key_folding = "Off"
     /\ dopts.expand_paths = "Off" /\ dopts.strict)
        => RoundTrips

\* C8: for a value whose keys are all identifier segments and every
\* flatten depth, decoding with path expansion Safe the encoding made with
\* key folding Safe returns the value.  Stated for the comma delimiter.
C8_FoldExpandRoundTrip ==
    (/\ pc = "decoded"
     /\ KeysAreSegments(value)
     /\ eopts.key_folding = "Safe" /\ eopts.document_delimiter = "Comma"
     /\ dopts.expand_paths = "Safe")
        => RoundTrips

(***************************************************************************)
(* The documents written by hand: a document is a sequence of raw lines    *)
(* joined by "\n" and handed to decode_str.                                *)
(***************************************************************************)
\* let text = doc.join("\n"); decode_str(&text, dopts)
DecodeText ==
    /\ pc = "doc"
    /\ text' = Join(doc, <<"\n">>)
    /\ res' = decode_str(text', dopts)
    /\ pc' = "decoded"
    /\ UNCHANGED <<value, eopts, enc, doc, dopts, vres, enc2, res2, str, tok, prim>>

\* validate_str(&text, dopts)
Validate ==
    /\ pc = "decoded"
    /\ vres' = validate_str(text, dopts)
    /\ pc' = "validated"
    /\ UNCHANGED <<value, eopts, enc, doc, text, dopts, res, enc2, res2, str, tok, prim>>

\* encode_value(&value, eopts) on the decoded value: the normal form
Reencode ==
    /\ pc = "decoded"
    /\ res.st = "ok"
    /\ enc2' = encode_value(res.v, eopts)
    /\ pc' = "reencoded"
    /\ UNCHANGED <<value, eopts, enc, doc, text, dopts, res, vres, res2, str, tok, prim>>

\* decode_str on the normal form
Redecode ==
    /\ pc = "reencoded"
    /\ enc2.st = "ok"
    /\ res2' = decode_str(enc2.s, dopts)
    /\ pc' = "redecoded"
    /\ UNCHANGED <<value, eopts, enc, doc, text, dopts, res, vres, enc2, str, tok, prim>>

InitText(optsD) ==
    /\ pc = "doc"
    /\ doc = <<>> /\ text = <<>>
    /\ dopts \in optsD
    /\ eopts = DefaultEncoderOptions
    /\ value = Null
    /\ enc = None /\ res = None /\ vres = None /\ enc2 = None /\ res2 = None
    /\ str = <<>> /\ tok = <<>> /\ prim = None

(***************************************************************************)
(* SpecLen: documents of array headers, rows and list items, decoded and   *)
(* validated under strict and lenient options.                             *)
(***************************************************************************)
MaxLenLines == 3

\* the lines a document of SpecLen is made of:
\*   a[2]: 1
\*   [2]:
\*   a[1]:
\*   a[1]{x}:
\*     1
\*     - 1
\*     - b[2]: 1
\*     - b[1]: 1
\*     - b[1]{x}:
\*       1
\*   (a blank line)
\*   x: 1
\*     - [2]: 1
\*   a[0]:
LenLines ==
    {<<"a","[","2","]",":"," ","1">>,
     <<"[","2","]",":">>,
     <<"a","[","1","]",":">>,
     <<"a","[","1","]","{","x","}",":">>,
     <<" "," ","1">>,
     <<" "," ","-"," ","1">>,
     <<" "," ","-"," ","b","[","2","]",":"," ","1">>,
     <<" "," ","-"," ","b","[","1","]",":"," ","1">>,
     <<" "," ","-"," ","b","[","1","]","{","x","}",":">>,
     <<" "," "," "," ","1">>,
     <<>>,
     <<"x",":"," ","1">>,
     <<" "," ","-"," ","[","2","]",":"," ","1">>,
     <<"a","[","0","]",":">>}

InitLen == InitText({DecoderOptions(2, s, "Off") : s \in BOOLEAN})

AppendLenLine ==
    /\ pc = "doc"
    /\ Len(doc) < MaxLenLines
    /\ \E l \in LenLines : doc' = Append(doc, l)
    /\ UNCHANGED <<pc, value, eopts, enc, text, dopts, res, vres, enc2, res2, str, tok, prim>>

NextLen == AppendLenLine \/ DecodeText \/ Validate

SpecLen == InitLen /\ [][NextLen]_vars

\* decode_str on the same text with strict = false
Lenient == decode_str(text, [dopts EXCEPT !.strict = FALSE])

\* C3: with strict = true, decode_str returns an error, never a value, for
\* a document in which some array header's declared length differs from
\* the number of inline values, rows or list items consumed for that array.
C3_StrictRejectsLengthMismatch ==
    (pc = "decoded" /\ dopts.strict) =>
        /\ (res.st = "ok" => ~res.mm)
        /\ ((Lenient.st = "ok" /\ Lenient.mm) => res.st = "err")

\* a table with fewer rows than declared: accepted when lenient, rejected
\* when strict
C3_Witness ==
    /\ pc = "decoded" /\ dopts.strict
    /\ Lenient.st = "ok" /\ Lenient.mm
    /\ res.st = "err" /\ res.kind = "expected rows"

LengthErrors == {"expected values", "expected rows", "expected list items"}

\* the array header written on raw line n of the text (blank lines
\* counted), after its indentation and the "- " of a list item
HeaderAt(n) ==
    LET raws == SplitLines(text, <<>>)
        t == Trim(raws[n])
        body == IF StartsWith(t, <<"-", " ">>) THEN Trim(From(t, 3)) ELSE t
    IN  IF n \in 1..Len(raws) THEN parse_header(body, FALSE, n) ELSE HNone

\* C4: when strict decoding rejects an array for a length mismatch, the
\* line number of the error is that of the array's header line, counted
\* 1-based in the input with blank lines included, also when the header is
\* on a "- " list-item line: that line holds a header declaring the
\* expected length, which differs from the number found.
C4_LengthErrorNamesHeaderLine ==
    (pc = "decoded" /\ dopts.strict /\ res.st = "err" /\ res.kind \in LengthErrors) =>
        LET h == HeaderAt(res.ln)
        IN  /\ h.st = "ok" /\ h.some
            /\ h.h.len = res.expected
            /\ res.expected # res.found

\* a blank first line, and the mismatching header on a list-item line
C4_Witness ==
    /\ pc = "decoded" /\ dopts.strict
    /\ res.st = "err" /\ res.kind = "expected values" /\ res.ln = 3
    /\ doc[1] = <<>>
    /\ StartsWith(Trim(doc[3]), <<"-", " ">>)

\* C10: validate_str succeeds exactly when decode_str succeeds on the same
\* input and options, and when it fails it returns decode_str's error.
C10_ValidateAgreesWithDecode ==
    pc = "validated" =>
        /\ (vres.st = "ok") <=> (res.st = "ok")
        /\ (vres.st # "ok" => vres = res)

\* a short list rejected by the strict decoder and, with the same error, by
\* the validator
C10_Witness ==
    /\ pc = "validated" /\ dopts.strict
    /\ res.st = "err" /\ res.kind = "expected list items"
    /\ vres = res

(***************************************************************************)
(* SpecDoc: documents of fields, quoted keys, dotted keys and list items,  *)
(* decoded, encoded again and decoded again.                               *)
(***************************************************************************)
MaxDocLines == 3

\* the lines a document of SpecDoc is made of:
\*   "a:b":
\*     [2]: 1,2
\*   a[1]{}:
\*   k: "
\*   a.b: 1
\*   a: 1
\*   a:
\*     b: 1
\*   [1]:
\*     - a:
\*     -
\*   a[2]: 1
\*     - 1
\*   (a blank line)
DocLines ==
    {<<"\"","a",":","b","\"",":">>,
     <<" "," ","[","2","]",":"," ","1",",","2">>,
     <<"a","[","1","]","{","}",":">>,
     <<"k",":"," ","\"">>,
     <<"a",".","b",":"," ","1">>,
     <<"a",":"," ","1">>,
     <<"a",":">>,
     <<" "," ","b",":"," ","1">>,
     <<"[","1","]",":">>,
     <<" "," ","-"," ","a",":">>,
     <<" "," ","-">>,
     <<"a","[","2","]",":"," ","1">>,
     <<" "," ","-"," ","1">>,
     <<>>}

InitDoc == InitText({DecoderOptions(2, s, e) : s \in BOOLEAN, e \in {"Off", "Safe"}})

AppendDocLine ==
    /\ pc = "doc"
    /\ Len(doc) < MaxDocLines
    /\ \E l \in DocLines : doc' = Append(doc, l)
    /\ UNCHANGED <<pc, value, eopts, enc, text, dopts, res, vres, enc2, res2, str, tok, prim>>

NextDoc == AppendDocLine \/ DecodeText \/ Reencode \/ Redecode

SpecDoc == InitDoc /\ [][NextDoc]_vars

\* C2: for a document accepted under strict options with path expansion
\* Off, the encoding of the decoded value with key folding Off is accepted
\* again and decodes to the same value.
C2_NormalFormIdempotent ==
    (dopts.strict /\ dopts.expand_paths = "Off") =>
        /\ (pc = "reencoded" => enc2.st = "ok")
        /\ (pc = "redecoded" => (res2.st = "ok" /\ res2.v = res.v))

\* C5: every error decode_str returns carries the 1-based number of a line
\* of the input as its "line N:" prefix.
C5_ErrorsCarryLine ==
    (pc = "decoded" /\ res.st = "err") => res.ln \in 1..Len(doc)

\* C6: with indent >= 1, decode_str returns a value or an error on every
\* input; it never aborts.
C6_NeverAborts ==
    (pc = "decoded" /\ dopts.indent >= 1) => res.st \in {"ok", "err"}

(***************************************************************************)
(* SpecStr: encode_string followed by parse_primitive_token.               *)
(***************************************************************************)
MaxStrLen == 3

StrAlphabet ==
    {"a", "e", "0", "1", "-", ".", "\"", "\\", ",", "|", "\t", " ", ":", "\n"}

\* the literals and a numeric form longer than MaxStrLen
StrWords ==
    {<<"t","r","u","e">>, <<"f","a","l","s","e">>, <<"n","u","l","l">>,
     <<"-","1",".","0","e","1">>, <<"a","\r","[","]">>, <<"{","a","}","\\","n">>}

Strings == SeqsUpTo(StrAlphabet, MaxStrLen) \cup StrWords

InitStr ==
    /\ pc = "str"
    /\ str \in Strings
    /\ eopts \in {EncoderOptions(2, d, "Off", NoFlatten) : d \in Delimiters}
    /\ dopts = DefaultDecoderOptions
    /\ value = Null /\ doc = <<>> /\ text = <<>>
    /\ enc = None /\ res = None /\ vres = None /\ enc2 = None /\ res2 = None
    /\ tok = <<>> /\ prim = None

EncodeString ==
    /\ pc = "str"
    /\ tok' = encode_string(str, eopts.document_delimiter)
    /\ pc' = "tok"
    /\ UNCHANGED <<value, eopts, enc, doc, text, dopts, res, vres, enc2, res2, str, prim>>

ParseToken ==
    /\ pc = "tok"
    /\ prim' = parse_primitive_token(tok)
    /\ pc' = "prim"
    /\ UNCHANGED <<value, eopts, enc, doc, text, dopts, res, vres, enc2, res2, str, tok>>

NextStr == EncodeString \/ ParseToken

SpecStr == InitStr /\ [][NextStr]_vars

\* C9: for every string s and delimiter d, parse_primitive_token applied to
\* encode_string(s, d) returns String(s): a bare token is not read back as
\* a boolean, null or a number, and a quoted one is unescaped to s.
C9_StringTokenRoundTrip == pc = "prim" => prim = PrimOk(Str(str))

\* a numeric-like string was quoted and read back
C9_Witness ==
    /\ pc = "prim"
    /\ is_numeric_like(str)
    /\ tok[1] = "\""
    /\ prim = PrimOk(Str(str))

(***************************************************************************)
(* SpecTab: documents with tabs and carriage returns in the leading        *)
(* whitespace of their lines, decoded under every indent from 0 to 3.      *)
(***************************************************************************)
MaxTabLines == 3

MaxIndent == 3

\* the lines a document of SpecTab is made of ("\t" is a tab, "\r" a
\* carriage return):
\*   a: 1
\*   \tb: 1
\*    \tb: 1          (a space, then a tab)
\*     c: 1           (two spaces)
\*   \r\tx
\*   \t               (blank: only a tab)
\*   d:\t1            (a tab after the colon)
TabLines ==
    {<<"a",":"," ","1">>,
     <<"\t","b",":"," ","1">>,
     <<" ","\t","b",":"," ","1">>,
     <<" "," ","c",":"," ","1">>,
     <<"\r","\t","x">>,
     <<"\t">>,
     <<"d",":","\t","1">>}

InitTab ==
    InitText({DecoderOptions(n, s, e) :
                  n \in 0..MaxIndent, s \in BOOLEAN, e \in {"Off", "Safe"}})

AppendTabLine ==
    /\ pc = "doc"
    /\ Len(doc) < MaxTabLines
    /\ \E l \in TabLines : doc' = Append(doc, l)
    /\ UNCHANGED <<pc, value, eopts, enc, text, dopts, res, vres, enc2, res2, str, tok, prim>>

NextTab == AppendTabLine \/ DecodeText

SpecTab == InitTab /\ [][NextTab]_vars

\* the leading whitespace run of a raw line
RECURSIVE LeadingWhitespace(_)
LeadingWhitespace(s) ==
    IF s # <<>> /\ IsWs(Head(s)) THEN <<Head(s)>> \o LeadingWhitespace(Tail(s))
    ELSE <<>>

\* some non-blank line of the input has a tab in its leading whitespace run
HasLeadingTab(input) ==
    \E n \in 1..Len(SplitLines(input, <<>>)) :
        /\ Trim(SplitLines(input, <<>>)[n]) # <<>>
        /\ Contains(LeadingWhitespace(SplitLines(input, <<>>)[n]), "\t")

\* C11: decode_str rejects with a decoding error every input that has a
\* non-blank line whose leading whitespace run contains a tab, for every
\* indent, strict and expand_paths.
C11_LeadingTabRejected ==
    (pc = "decoded" /\ HasLeadingTab(text)) => res.st = "err"

\* C11 restricted to a positive indent and to leading runs of spaces and
\* tabs only: the part of the statement the tokenizer does satisfy
C11_SpaceTabRunRejected ==
    (pc = "decoded" /\ dopts.indent >= 1
     /\ \E n \in 1..Len(doc) :
            /\ Trim(doc[n]) # <<>>
            /\ IndentScan(doc[n], 1) < 0)
        => (res.st = "err" /\ res.kind \in {"tabs are not allowed for indentation",
                                            "indentation must be a multiple"})

(***************************************************************************)
(* Path expansion collisions, on the documents of SpecDoc.                 *)
(***************************************************************************)
\* the value of the text before path expansion
Unexpanded == decode_str(text, [dopts EXCEPT !.expand_paths = "Off"])

\* the object v has a dotted key whose first segment is also a key of v
\* holding a primitive: expanding the dotted key collides with that key
PathCollision(v) ==
    /\ v.t = "obj"
    /\ \E i, j \in 1..Len(v.o) :
           /\ IsDottedPath(v.o[i].k)
           /\ v.o[j].k = SplitOn(v.o[i].k, ".", <<>>)[1]
           /\ is_primitive(v.o[j].v)

\* C12: with expand_paths = Safe and strict = true, decode_str returns a
\* decoding error whenever expanding a dotted key collides with a key that
\* exists along its path in the same object, in whichever order the two keys
\* appear in the document.
C12_CollisionRejectedInAnyOrder ==
    (pc = "decoded" /\ dopts.strict /\ dopts.expand_paths = "Safe"
     /\ Unexpanded.st = "ok" /\ PathCollision(Unexpanded.v))
        => res.st = "err"

\* the same statement for the one order the code does reject: the dotted
\* key comes after the key it collides with
C12_CollisionRejectedWhenDottedLast ==
    (pc = "decoded" /\ dopts.strict /\ dopts.expand_paths = "Safe"
     /\ Unexpanded.st = "ok" /\ Unexpanded.v.t = "obj"
     /\ \E i, j \in 1..Len(Unexpanded.v.o) :
            /\ j < i
            /\ IsDottedPath(Unexpanded.v.o[i].k)
            /\ Unexpanded.v.o[j].k = SplitOn(Unexpanded.v.o[i].k, ".", <<>>)[1]
            /\ is_primitive(Unexpanded.v.o[j].v))
        => (res.st = "err" /\ res.kind = "expansion conflict: expected object")

(***************************************************************************)
(* SpecEnc: encode_value on arrays of every shape, under every indent,     *)
(* delimiter and folding mode.                                             *)
(***************************************************************************)
MaxItems == 2

\* 2147483647 is 2^31 - 1
EncPrims ==
    {Null, Bool(TRUE), Str(<<"x">>), NumInt(0), NumInt(0 - 7), NumInt(10),
     NumInt(2147483647), NumFloat(<<"-", "0">>)}

\* the items of the arrays: primitives, objects with the same keys in both
\* orders, with other keys, with a nested value, and arrays
EncItems ==
    EncPrims \cup
    {EmptyObj,
     Obj(<<Entry(<<"a">>, NumInt(10))>>),
     Obj(<<Entry(<<"b">>, NumInt(10))>>),
     Obj(<<Entry(<<"a">>, NumInt(10)), Entry(<<"b">>, Str(<<"x">>))>>),
     Obj(<<Entry(<<"b">>, Str(<<"x">>)), Entry(<<"a">>, NumInt(10))>>),
     Obj(<<Entry(<<"a">>, Arr(<<>>))>>),
     Obj(<<Entry(<<"a">>, Obj(<<Entry(<<"b">>, NumInt(10))>>))>>),
     Arr(<<>>),
     Arr(<<NumInt(10)>>),
     Arr(<<NumInt(10), Str(<<"x">>)>>),
     Arr(<<Arr(<<>>)>>)}

EncValues == EncItems \cup {Arr(s) : s \in SeqsUpTo(EncItems, MaxItems)}

EncOptions ==
    {EncoderOptions(n, d, f.key_folding, f.flatten_depth) :
         n \in {0, 2}, d \in Delimiters,
         f \in {[key_folding |-> "Off", flatten_depth |-> NoFlatten],
                [key_folding |-> "Safe", flatten_depth |-> NoFlatten]}}

InitEnc ==
    /\ pc = "value"
    /\ value \in EncValues
    /\ eopts \in EncOptions
    /\ dopts = DefaultDecoderOptions
    /\ doc = <<>> /\ text = <<>>
    /\ enc = None /\ res = None /\ vres = None /\ enc2 = None /\ res2 = None
    /\ str = <<>> /\ tok = <<>> /\ prim = None

NextEnc == Encode

SpecEnc == InitEnc /\ [][NextEnc]_vars

\* every number of v is an integer
RECURSIVE IntegersOnly(_)
IntegersOnly(v) ==
    CASE v.t = "num" -> v.k = "int"
      [] v.t = "obj" -> \A n \in 1..Len(v.o) : IntegersOnly(v.o[n].v)
      [] v.t = "arr" -> \A n \in 1..Len(v.a) : IntegersOnly(v.a[n])
      [] OTHER -> TRUE

AllPrimitive(items) == \A n \in 1..Len(items) : is_primitive(items[n])

\* encode_array emits items as a table / as an array of arrays
TabularChosen(items) == ~AllPrimitive(items) /\ detect_tabular(items).some

ArraysChosen(items) ==
    ~AllPrimitive(items) /\ ~detect_tabular(items).some
    /\ is_array_of_primitive_arrays(items)

\* C13: for every tree value whose numbers are integers and every
\* EncoderOptions, encode_value returns a string, never an error or an
\* abort: when the tabular shape is chosen every item is an object holding
\* every header field, and when the array-of-arrays shape is chosen every
\* item is an array of primitives.
C13_EncodeNeverFails ==
    (pc \in {"encoded", "failed"} /\ IntegersOnly(value)) =>
        /\ enc.st = "ok"
        /\ (value.t = "arr" /\ TabularChosen(value.a)) =>
               \A m \in 1..Len(value.a) :
                   /\ value.a[m].t = "obj"
                   /\ \A n \in 1..Len(detect_tabular(value.a).fields) :
                          MapIndex(value.a[m].o, detect_tabular(value.a).fields[n]) # 0
        /\ (value.t = "arr" /\ ArraysChosen(value.a)) =>
               \A m \in 1..Len(value.a) :
                   value.a[m].t = "arr" /\ AllPrimitive(value.a[m].a)

\* a table of two rows whose second row has the keys in the other order
C13_Witness ==
    /\ pc = "encoded" /\ enc.st = "ok"
    /\ value.t = "arr" /\ Len(value.a) = 2 /\ TabularChosen(value.a)
    /\ value.a[1] # value.a[2]
    /\ Len(value.a[1].o) = 2
    /\ eopts.indent = 0

(***************************************************************************)
(* SpecOrd: documents whose objects repeat and reorder their keys, with    *)
(* nested objects and tables, decoded without path expansion.              *)
(***************************************************************************)
MaxOrdLines == 4

\* the lines a document of SpecOrd is made of:
\*   b: 1
\*   a: 2
\*   b:
\*     d: 1
\*     c: 2
\*     d: 3
\*   t[1]{y,x}:
\*   t[1]{x,y,x}:
\*     1,2
\*     1,2,3
OrdLines ==
    {<<"b",":"," ","1">>,
     <<"a",":"," ","2">>,
     <<"b",":">>,
     <<" "," ","d",":"," ","1">>,
     <<" "," ","c",":"," ","2">>,
     <<" "," ","d",":"," ","3">>,
     <<"t","[","1","]","{","y",",","x","}",":">>,
     <<"t","[","1","]","{","x",",","y",",","x","}",":">>,
     <<" "," ","1",",","2">>,
     <<" "," ","1",",","2",",","3">>}

InitOrd == InitText({DecoderOptions(2, s, "Off") : s \in BOOLEAN})

AppendOrdLine ==
    /\ pc = "doc"
    /\ Len(doc) < MaxOrdLines
    /\ \E l \in OrdLines : doc' = Append(doc, l)
    /\ UNCHANGED <<pc, value, eopts, enc, text, dopts, res, vres, enc2, res2, str, tok, prim>>

NextOrd == AppendOrdLine \/ DecodeText

SpecOrd == InitOrd /\ [][NextOrd]_vars

\* the keys of an object value, in the order of the map
KeysOf(v) == [n \in 1..Len(v.o) |-> v.o[n].k]

\* s without the repetitions of an element: the order of first appearance
RECURSIVE FirstAppearances(_, _)
FirstAppearances(s, seen) ==
    IF s = <<>> THEN seen
    ELSE IF \E n \in 1..Len(seen) : seen[n] = Head(s)
    THEN FirstAppearances(Tail(s), seen)
    ELSE FirstAppearances(Tail(s), Append(seen, Head(s)))

\* the key written on a line of SpecOrd: the text before the first ':' or '['
WrittenKey(line) ==
    SubSeq(line, 1,
           (CHOOSE p \in 1..Len(line) :
                line[p] \in {":", "["} /\ \A q \in 1..(p - 1) : line[q] \notin {":", "["})
           - 1)

\* the field names written between the braces of a header line of SpecOrd
WrittenFields(line) ==
    SplitOn(SubSeq(line, Find(line, "{") + 1, Find(line, "}") - 1), ",", <<>>)

\* the keys written on the lines of doc numbered from..to that start with
\* exactly the given number of spaces and hold a ':'
RECURSIVE WrittenKeys(_, _, _)
WrittenKeys(from, to, spaces) ==
    IF from > to THEN <<>>
    ELSE IF /\ IndentScan(doc[from], 1) = spaces
            /\ Contains(doc[from], ":")
         THEN <<WrittenKey(From(doc[from], spaces + 1))>>
                  \o WrittenKeys(from + 1, to, spaces)
         ELSE WrittenKeys(from + 1, to, spaces)

\* the last line of the block of line n: the lines under it that are indented
RECURSIVE BlockEnd(_)
BlockEnd(n) ==
    IF n + 1 <= Len(doc) /\ IndentScan(doc[n + 1], 1) > 0 THEN BlockEnd(n + 1)
    ELSE n

\* line n is the last line of depth 0 the decoder read that writes its key;
\* res.i is the line the decoder stopped at (the lenient decoder leaves a
\* stray indented line and everything after it unread)
LastWriter(n) ==
    /\ n < res.i
    /\ IndentScan(doc[n], 1) = 0
    /\ \A m \in (n + 1)..(res.i - 1) :
           IndentScan(doc[m], 1) = 0 => WrittenKey(doc[m]) # WrittenKey(doc[n])

\* the value the root object holds under the key written on line n
ValueOfLine(n) == res.v.o[MapIndex(res.v.o, WrittenKey(doc[n]))].v

\* C14: for every accepted document (expand_paths = Off), the key order of
\* each decoded object equals the order in which its keys first appear in
\* the text: field lines from top to bottom, and for tabular rows the order
\* of the header's field list.  The text of the root object is the lines
\* the decoder read, the text of a nested object the block under its key.
C14_KeyOrderIsFirstAppearance ==
    (pc = "decoded" /\ res.st = "ok" /\ res.v.t = "obj") =>
        /\ KeysOf(res.v) = FirstAppearances(WrittenKeys(1, res.i - 1, 0), <<>>)
        /\ \A n \in 1..Len(doc) :
               LastWriter(n) =>
                   /\ ValueOfLine(n).t = "obj" =>
                          KeysOf(ValueOfLine(n)) =
                              FirstAppearances(WrittenKeys(n + 1, BlockEnd(n), 2), <<>>)
                   /\ (ValueOfLine(n).t = "arr" /\ Contains(doc[n], "{")) =>
                          \A m \in 1..Len(ValueOfLine(n).a) :
                              KeysOf(ValueOfLine(n).a[m]) =
                                  FirstAppearances(WrittenFields(doc[n]), <<>>)

\* b is written, then a, then b again with a nested object that writes d,
\* c and d again: the root keeps b before a and the object d before c
C14_Witness ==
    /\ pc = "decoded" /\ res.st = "ok"
    /\ doc = <<<<"b",":"," ","1">>, <<"a",":"," ","2">>, <<"b",":">>,
               <<" "," ","d",":"," ","1">>>>
    /\ KeysOf(res.v) = <<<<"b">>, <<"a">>>>
    /\ res.v.o[1].v = Obj(<<Entry(<<"d">>, NumInt(1))>>)

\* a table whose header repeats a field, accepted by the lenient decoder:
\* the row keeps x before y
C14_WitnessTable ==
    /\ pc = "decoded" /\ res.st = "ok"
    /\ doc = <<<<"t","[","1","]","{","x",",","y",",","x","}",":">>,
               <<" "," ","1",",","2",",","3">>>>
    /\ res.v.o[1].v.a[1] = Obj(<<Entry(<<"x">>, NumInt(3)), Entry(<<"y">>, NumInt(2))>>)

(***************************************************************************)
(* Numbers in the encoder's output (on SpecEnc).                           *)
(***************************************************************************)
\* s is the plain decimal form of the integer n: an optional '-', then
\* digits with no leading zero, no '.', no exponent, and the value of n
IsPlainDecimalOf(s, n) ==
    LET digits == IF n < 0 THEN Tail(s) ELSE s
    IN  /\ s # <<>>
        /\ (n < 0) = (s[1] = "-")
        /\ digits # <<>>
        /\ AllDigits(digits)
        /\ Len(digits) > 1 => digits[1] # "0"
        /\ DecToNat(digits) = (IF n < 0 THEN 0 - n ELSE n)

\* s is what the claim allows for the number v; the only float among the
\* values of SpecEnc is negative zero
IsCanonicalNumber(s, v) ==
    IF v.k = "int" THEN IsPlainDecimalOf(s, v.n) ELSE s = <<"0">>

AllNumbers(items) == \A n \in 1..Len(items) : items[n].t = "num"

\* the cells of the one line an inline array is emitted as: what follows
\* "]: " split on the delimiter
EmittedCells(s, delim) ==
    SplitOn(From(s, Find(s, "]") + 3), delim, <<>>)

\* C15: for every integer number in the i64 or u64 range, encode_value
\* emits its plain decimal form with no exponent and no leading zeros, and
\* a negative zero is emitted as 0; at the root and as a cell of an array.
C15_IntegersArePlainDecimal ==
    (pc \in {"encoded", "failed"}) =>
        /\ value.t = "num" => (enc.st = "ok" /\ IsCanonicalNumber(enc.s, value))
        /\ (value.t = "arr" /\ value.a # <<>> /\ AllNumbers(value.a)) =>
               /\ enc.st = "ok"
               /\ Len(EmittedCells(enc.s, as_char(eopts.document_delimiter)))
                      = Len(value.a)
               /\ \A n \in 1..Len(value.a) :
                      IsCanonicalNumber(
                          EmittedCells(enc.s, as_char(eopts.document_delimiter))[n],
                          value.a[n])

C15_Witness ==
    /\ pc = "encoded"
    /\ value = Arr(<<NumFloat(<<"-", "0">>), NumInt(0 - 7)>>)
    /\ eopts.document_delimiter = "Pipe"
    /\ enc.s = <<"[", "2", "|", "]", ":", " ", "0", "|", "-", "7">>

(***************************************************************************)
(* The shape of an emitted root array (on SpecEnc), read off the text.     *)
(***************************************************************************)
EmittedLines == SplitOn(enc.s, "\n", <<>>)

\* the line opens a list item: "- " after the indentation, or the lone "-"
\* of an empty object
OpensListItem(line) ==
    \/ TrimStart(line) = <<"-">>
    \/ StartsWith(TrimStart(line), <<"-", " ">>)

\* inline: the header and the cells on the one line
InlineShape == Len(EmittedLines) = 1

\* tabular: a header with a field list, then one row per item, none of them
\* a list item
TabularShape ==
    /\ Len(EmittedLines) = 1 + Len(value.a)
    /\ Contains(EmittedLines[1], "{")
    /\ \A n \in 2..Len(EmittedLines) : ~OpensListItem(EmittedLines[n])

\* list: a header without a field list, then list items; the first line
\* after the header opens the first item
ListShape ==
    /\ Len(EmittedLines) > 1
    /\ ~Contains(EmittedLines[1], "{")
    /\ OpensListItem(EmittedLines[2])

\* array of primitive arrays: a list whose every item is an inline array
ArraysShape ==
    /\ ListShape
    /\ Len(EmittedLines) = 1 + Len(value.a)
    /\ \A n \in 2..Len(EmittedLines) :
           StartsWith(TrimStart(EmittedLines[n]), <<"-", " ", "[">>)

\* C16: encode_array picks exactly one shape per array by testing in this
\* fixed order and taking the first match: inline (all items primitive,
\* including the empty array), tabular, array of primitive arrays, general
\* list; an array that satisfies an earlier test is never emitted in a
\* later shape.
C16_FirstMatchingShape ==
    (pc = "encoded" /\ value.t = "arr") =>
        IF AllPrimitive(value.a) THEN InlineShape
        ELSE IF detect_tabular(value.a).some THEN TabularShape
        ELSE IF is_array_of_primitive_arrays(value.a) THEN ArraysShape
        ELSE ListShape

\* two objects with the same keys and primitive values are a table, though
\* the general list could hold them as well
C16_Witness ==
    /\ pc = "encoded"
    /\ value = Arr(<<Obj(<<Entry(<<"a">>, NumInt(10))>>), Obj(<<Entry(<<"a">>, NumInt(10))>>)>>)
    /\ eopts.indent = 2 /\ eopts.document_delimiter = "Comma"
    /\ enc.s = <<"[","2","]","{","a","}",":","\n"," "," ","1","0","\n"," "," ","1","0">>

\* C17: the encoder chooses the tabular shape for an array only if every
\* item is a non-empty object whose key list, in insertion order, is
\* identical to the first item's key list and every value is primitive;
\* items with the same keys in a different order are not emitted as a table.
C17_TableOnlyForIdenticalKeyLists ==
    (pc = "encoded" /\ value.t = "arr" /\ value.a # <<>> /\ TabularShape) =>
        \A n \in 1..Len(value.a) :
            /\ value.a[n].t = "obj"
            /\ value.a[n].o # <<>>
            /\ KeysOf(value.a[n]) = KeysOf(value.a[1])
            /\ \A m \in 1..Len(value.a[n].o) : is_primitive(value.a[n].o[m].v)

\* what detect_tabular does guarantee: every item is a non-empty object
\* with as many keys as the first, all of the first's keys, and primitive
\* values, whatever the order of its keys
C17_TableForSameKeySets ==
    (pc = "encoded" /\ value.t = "arr" /\ value.a # <<>> /\ TabularShape) =>
        \A n \in 1..Len(value.a) :
            /\ value.a[n].t = "obj"
            /\ value.a[n].o # <<>>
            /\ {value.a[n].o[m].k : m \in 1..Len(value.a[n].o)}
                   = {value.a[1].o[m].k : m \in 1..Len(value.a[1].o)}
            /\ \A m \in 1..Len(value.a[n].o) : is_primitive(value.a[n].o[m].v)

(***************************************************************************)
(* SpecQuo: documents of fields, headers, list items and root primitives   *)
(* whose quoted keys and strings hold ':' and '['.                         *)
(***************************************************************************)
MaxQuoLines == 2

MaxQuoLen == 2

\* what stands between the quotes: up to MaxQuoLen of the characters a : [
QuoContents == SeqsUpTo({"a", ":", "["}, MaxQuoLen) \ {<<>>}

\* "s": 1
QuoKeyLine(s) == Quoted(s) \o <<":", " ", "1">>

\* k: "s"
QuoValueLine(s) == <<"k", ":", " ">> \o Quoted(s)

\* "s"[1]: 1
QuoHeaderLine(s) == Quoted(s) \o <<"[", "1", "]", ":", " ", "1">>

\* [1]: "s"
QuoCellLine(s) == <<"[", "1", "]", ":", " ">> \o Quoted(s)

\* x[1]:
QuoListHeader == <<"x", "[", "1", "]", ":">>

\*   - "s"
QuoItemLine(s) == <<" ", " ", "-", " ">> \o Quoted(s)

\*   - "s": 1
QuoItemKeyLine(s) == <<" ", " ", "-", " ">> \o QuoKeyLine(s)

\*   - k: "s"
QuoItemValueLine(s) == <<" ", " ", "-", " ">> \o QuoValueLine(s)

QuoLines ==
    {QuoListHeader}
        \cup {QuoItemValueLine(s) : s \in QuoContents}
        \cup {QuoKeyLine(s) : s \in QuoContents}
        \cup {QuoValueLine(s) : s \in QuoContents}
        \cup {QuoHeaderLine(s) : s \in QuoContents}
        \cup {QuoCellLine(s) : s \in QuoContents}
        \cup {Quoted(s) : s \in QuoContents}
        \cup {QuoItemLine(s) : s \in QuoContents}
        \cup {QuoItemKeyLine(s) : s \in QuoContents}

InitQuo == InitText({DecoderOptions(2, s, "Off") : s \in BOOLEAN})

AppendQuoLine ==
    /\ pc = "doc"
    /\ Len(doc) < MaxQuoLines
    /\ \E l \in QuoLines : doc' = Append(doc, l)
    /\ UNCHANGED <<pc, value, eopts, enc, text, dopts, res, vres, enc2, res2, str, tok, prim>>

NextQuo == AppendQuoLine \/ DecodeText

SpecQuo == InitQuo /\ [][NextQuo]_vars

Decoded(v) == res.st = "ok" /\ res.v = v

\* a quoted string in the place of a value decodes to that exact string: as
\* the value of a field, as the cell of an inline array, and as the value
\* of a list item's field
QuotedValueIsOpaque(s) ==
    /\ doc = <<QuoValueLine(s)>> => Decoded(Obj(<<Entry(<<"k">>, Str(s))>>))
    /\ doc = <<QuoCellLine(s)>> => Decoded(Arr(<<Str(s)>>))
    /\ doc = <<QuoListHeader, QuoItemValueLine(s)>> =>
           Decoded(Obj(<<Entry(<<"x">>, Arr(<<Obj(<<Entry(<<"k">>, Str(s))>>)>>))>>))

\* a quoted key decodes to that exact key: of a field, of an array header
\* and of a list item's first field
QuotedKeyIsOpaque(s) ==
    /\ doc = <<QuoKeyLine(s)>> => Decoded(Obj(<<Entry(s, NumInt(1))>>))
    /\ doc = <<QuoHeaderLine(s)>> => Decoded(Obj(<<Entry(s, Arr(<<NumInt(1)>>))>>))
    /\ doc = <<QuoListHeader, QuoItemKeyLine(s)>> =>
           Decoded(Obj(<<Entry(<<"x">>, Arr(<<Obj(<<Entry(s, NumInt(1))>>)>>))>>))

\* a quoted string that is the whole root or the whole list item decodes to
\* that exact string
QuotedPrimitiveIsOpaque(s) ==
    /\ doc = <<Quoted(s)>> => Decoded(Str(s))
    /\ doc = <<QuoListHeader, QuoItemLine(s)>> =>
           Decoded(Obj(<<Entry(<<"x">>, Arr(<<Str(s)>>))>>))

\* C18: characters inside a double-quoted key or value are opaque to the
\* decoder's structural scan: a ':' or '[' inside quotes is never taken as
\* the key/value separator or as an array bracket, so a field, array
\* header, list item or root primitive whose quoted key or string contains
\* ':' or '[' decodes to that exact key or string.
C18_QuotedTextIsOpaque ==
    pc = "decoded" =>
        \A s \in QuoContents :
            /\ QuotedValueIsOpaque(s)
            /\ QuotedKeyIsOpaque(s)
            /\ QuotedPrimitiveIsOpaque(s)

\* the part that holds: a quoted string after the separator of a field or
\* of an inline array, and a quoted key without '[' in front of a field's
\* separator
C18_QuotedValueIsOpaque ==
    pc = "decoded" =>
        \A s \in QuoContents :
            /\ QuotedValueIsOpaque(s)
            /\ ~Contains(s, "[") =>
                   /\ doc = <<QuoKeyLine(s)>> => Decoded(Obj(<<Entry(s, NumInt(1))>>))
                   /\ doc = <<QuoListHeader, QuoItemKeyLine(s)>> =>
                          Decoded(Obj(<<Entry(<<"x">>,
                                               Arr(<<Obj(<<Entry(s, NumInt(1))>>)>>))>>))

(***************************************************************************)
(* SpecItem: a list of one item object whose first field is a keyed array  *)
(* written on the hyphen line, followed by sibling fields.  value is the   *)
(* item object the document writes.                                        *)
(***************************************************************************)
MaxSiblings == 2

\* the hyphen line of the item with the rows of its array, the key and the
\* array written
FirstFields ==
    {
    \*   - m[2]{i,n}:
    \*     1,A
    \*     2,B
    [shape |-> "tabular", k |-> <<"m">>,
     lines |-> <<<<" "," ","-"," ","m","[","2","]","{","i",",","n","}",":">>,
                     <<" "," "," "," ","1",",","A">>,
                     <<" "," "," "," ","2",",","B">>>>,
     v |-> Arr(<<Obj(<<Entry(<<"i">>, NumInt(1)), Entry(<<"n">>, Str(<<"A">>))>>),
                       Obj(<<Entry(<<"i">>, NumInt(2)), Entry(<<"n">>, Str(<<"B">>))>>)>>)],
    \*   - m[1]{i}:
    \*     1
    [shape |-> "tabular", k |-> <<"m">>,
     lines |-> <<<<" "," ","-"," ","m","[","1","]","{","i","}",":">>,
                     <<" "," "," "," ","1">>>>,
     v |-> Arr(<<Obj(<<Entry(<<"i">>, NumInt(1))>>)>>)],
    \*   - m[0]{i,n}:
    [shape |-> "tabular", k |-> <<"m">>,
     lines |-> <<<<" "," ","-"," ","m","[","0","]","{","i",",","n","}",":">>>>,
     v |-> Arr(<<>>)],
    \*   - e[0]:
    [shape |-> "list", k |-> <<"e">>,
     lines |-> <<<<" "," ","-"," ","e","[","0","]",":">>>>,
     v |-> Arr(<<>>)],
    \*   - l[2]:
    \*     - 1
    \*     - 2
    [shape |-> "list", k |-> <<"l">>,
     lines |-> <<<<" "," ","-"," ","l","[","2","]",":">>,
                     <<" "," "," "," ","-"," ","1">>,
                     <<" "," "," "," ","-"," ","2">>>>,
     v |-> Arr(<<NumInt(1), NumInt(2)>>)],
    \*   - a[1]:
    \*     - [1]: 1
    [shape |-> "list", k |-> <<"a">>,
     lines |-> <<<<" "," ","-"," ","a","[","1","]",":">>,
                     <<" "," "," "," ","-"," ","[","1","]",":"," ","1">>>>,
     v |-> Arr(<<Arr(<<NumInt(1)>>)>>)]
    }

\* a sibling field of the item with the lines under it, its key and its value
SiblingFields ==
    {
    \*     s: x
    [k |-> <<"s">>,
     lines |-> <<<<" "," "," "," ","s",":"," ","x">>>>,
     v |-> Str(<<"x">>)],
    \*     o:
    \*       p: 1
    [k |-> <<"o">>,
     lines |-> <<<<" "," "," "," ","o",":">>,
                     <<" "," "," "," "," "," ","p",":"," ","1">>>>,
     v |-> Obj(<<Entry(<<"p">>, NumInt(1))>>)],
    \*     t[2]: 1,2
    [k |-> <<"t">>,
     lines |-> <<<<" "," "," "," ","t","[","2","]",":"," ","1",",","2">>>>,
     v |-> Arr(<<NumInt(1), NumInt(2)>>)],
    \*     u[1]{x,y}:
    \*       1,2
    [k |-> <<"u">>,
     lines |-> <<<<" "," "," "," ","u","[","1","]","{","x",",","y","}",":">>,
                     <<" "," "," "," "," "," ","1",",","2">>>>,
     v |-> Arr(<<Obj(<<Entry(<<"x">>, NumInt(1)), Entry(<<"y">>, NumInt(2))>>)>>)]
    }

\* g[1]:
ItemListHeader == <<"g","[","1","]",":">>

InitItem == InitText({DecoderOptions(2, s, "Off") : s \in BOOLEAN})

StartItem ==
    /\ pc = "doc"
    /\ doc = <<>>
    /\ \E f \in FirstFields :
           /\ doc' = <<ItemListHeader>> \o f.lines
           /\ value' = Obj(<<Entry(f.k, f.v)>>)
    /\ UNCHANGED <<pc, eopts, enc, text, dopts, res, vres, enc2, res2, str, tok, prim>>

AppendSibling ==
    /\ pc = "doc"
    /\ doc # <<>>
    /\ Len(value.o) <= MaxSiblings
    /\ \E f \in SiblingFields :
           /\ \A n \in 1..Len(value.o) : value.o[n].k # f.k
           /\ doc' = doc \o f.lines
           /\ value' = Obj(Append(value.o, Entry(f.k, f.v)))
    /\ UNCHANGED <<pc, eopts, enc, text, dopts, res, vres, enc2, res2, str, tok, prim>>

NextItem == StartItem \/ AppendSibling \/ DecodeText

SpecItem == InitItem /\ [][NextItem]_vars

\* the document was decoded to the list of the one item object it writes
ItemDecoded ==
    /\ res.st = "ok"
    /\ res.v = Obj(<<Entry(<<"g">>, Arr(<<value>>))>>)

\* the first field of the item is a table / a keyed array that is no table
FirstIsTabular == \E f \in FirstFields : f.shape = "tabular" /\ value.o[1] = Entry(f.k, f.v)

FirstIsList == \E f \in FirstFields : f.shape = "list" /\ value.o[1] = Entry(f.k, f.v)

\* one of the sibling fields is a table with several columns
HasWideTableSibling == \E n \in 2..Len(value.o) : value.o[n].k = <<"u">>

\* C19: when a list item's first field is a tabular array, the decoder
\* consumes as rows only the lines that are rows of that table, stops at
\* the first sibling field line at the same depth, and adds every following
\* sibling field (primitive, nested object, inline array or a further
\* tabular array with several columns) to the same item object.
C19_SiblingsAfterTable ==
    (pc = "decoded" /\ value.t = "obj" /\ FirstIsTabular) => ItemDecoded

\* the same without the further table of several columns among the siblings
C19_NarrowSiblingsAfterTable ==
    (pc = "decoded" /\ value.t = "obj" /\ FirstIsTabular /\ ~HasWideTableSibling)
        => ItemDecoded

\* C20: when a list item's first field is a keyed array that is not tabular
\* (an empty array, a general list or an array of arrays), the decoder
\* consumes that array's rows, then continues with the sibling fields
\* written at row_depth + 1 and returns one item object holding the array
\* and all sibling fields.
C20_SiblingsAfterList ==
    (pc = "decoded" /\ value.t = "obj" /\ FirstIsList) => ItemDecoded

\* without a sibling field the item holds the array
C20_ListWithoutSiblings ==
    (pc = "decoded" /\ value.t = "obj" /\ FirstIsList /\ Len(value.o) = 1)
        => ItemDecoded

\* with a sibling field the document is rejected, whatever the options
C20_SiblingAfterListRejected ==
    (pc = "decoded" /\ value.t = "obj" /\ FirstIsList /\ Len(value.o) > 1)
        => (res.st = "err" /\ res.kind = "expected '-' to start list item")

(***************************************************************************)
(* SpecNest: a list of one item object whose first field, written on the   *)
(* hyphen line, has a nested object as its value, followed by sibling      *)
(* fields.  value is the item object the document writes.                  *)
(***************************************************************************)
\* the hyphen line of the item with the fields of the nested object two
\* levels below it, the key and the object written
NestedFirstFields ==
    {
    \*   - n:
    [k |-> <<"n">>,
     lines |-> <<<<" "," ","-"," ","n",":">>>>,
     v |-> Obj(<<>>)],
    \*   - n:
    \*       p: 1
    [k |-> <<"n">>,
     lines |-> <<<<" "," ","-"," ","n",":">>,
                     <<" "," "," "," "," "," ","p",":"," ","1">>>>,
     v |-> Obj(<<Entry(<<"p">>, NumInt(1))>>)],
    \*   - n:
    \*       q: 2
    \*       p: 1
    [k |-> <<"n">>,
     lines |-> <<<<" "," ","-"," ","n",":">>,
                     <<" "," "," "," "," "," ","q",":"," ","2">>,
                     <<" "," "," "," "," "," ","p",":"," ","1">>>>,
     v |-> Obj(<<Entry(<<"q">>, NumInt(2)), Entry(<<"p">>, NumInt(1))>>)]
    }

InitNest == InitText({DecoderOptions(2, s, "Off") : s \in BOOLEAN})

StartNestedItem ==
    /\ pc = "doc"
    /\ doc = <<>>
    /\ \E f \in NestedFirstFields :
           /\ doc' = <<ItemListHeader>> \o f.lines
           /\ value' = Obj(<<Entry(f.k, f.v)>>)
    /\ UNCHANGED <<pc, eopts, enc, text, dopts, res, vres, enc2, res2, str, tok, prim>>

NextNest == StartNestedItem \/ AppendSibling \/ DecodeText

SpecNest == InitNest /\ [][NextNest]_vars

\* C21: when a list item's first field has a nested object as its value,
\* the decoder reads that object's fields at row_depth + 2 and the item's
\* remaining fields at row_depth + 1; if the nested object is empty the
\* first field decodes to an empty object, wherever the item line stands in
\* the document, including the last line.
C21_NestedObjectFirstField ==
    (pc = "decoded" /\ value.t = "obj") => ItemDecoded

\* the same when a line follows the hyphen line
C21_NestedObjectBeforeLastLine ==
    (pc = "decoded" /\ value.t = "obj" /\ Len(doc) > 2) => ItemDecoded

\* on the last line of the document the first field decodes to null
C21_NestedObjectOnLastLine ==
    (pc = "decoded" /\ value.t = "obj" /\ Len(doc) = 2) =>
        /\ res.st = "ok"
        /\ res.v = Obj(<<Entry(<<"g">>, Arr(<<Obj(<<Entry(<<"n">>, Null)>>)>>))>>)

(***************************************************************************)
(* Empty objects as list items (on Spec).                                  *)
(***************************************************************************)
\* the value is a root array with an empty object among its items, every
\* item being written on one line of the list
ListWithEmptyObject ==
    /\ value.t = "arr"
    /\ \A n \in 1..Len(value.a) : value.a[n] \in Level0
    /\ \E n \in 1..Len(value.a) : value.a[n] = EmptyObj

\* every empty object among the items is the dash marker alone on its line
EmptyObjectsEmitted ==
    /\ Len(SplitOn(text, "\n", <<>>)) = 1 + Len(value.a)
    /\ \A n \in 1..Len(value.a) :
           value.a[n] = EmptyObj =>
               SplitOn(text, "\n", <<>>)[n + 1] = Spaces(eopts.indent) \o <<"-">>

\* C22: an empty object that is an item of a general list is emitted by the
\* encoder as a line holding only the dash marker, and the decoder reads
\* that line back as an empty object in the same position of the array.
C22_EmptyObjectItemRoundTrips ==
    (pc = "decoded" /\ ListWithEmptyObject) =>
        /\ EmptyObjectsEmitted
        /\ res.st = "ok"
        /\ res.v.t = "arr"
        /\ Len(res.v.a) = Len(value.a)
        /\ \A n \in 1..Len(value.a) : value.a[n] = EmptyObj => res.v.a[n] = EmptyObj

\* the encoder's half holds
C22_EmptyObjectItemEmitted ==
    (pc \in {"encoded", "decoded"} /\ ListWithEmptyObject) => EmptyObjectsEmitted

\* the decoder rejects the line the encoder wrote, whatever its options
C22_EmptyObjectItemRejected ==
    (pc = "decoded" /\ ListWithEmptyObject) =>
        (res.st = "err" /\ res.kind = "expected '-' to start list item")

(***************************************************************************)
(* SpecRoot: documents whose first line is blank, a primitive, a header, a *)
(* field, or a text with a bracket and no colon.                           *)
(***************************************************************************)
MaxRootLines == 3

\* the lines a document of SpecRoot is made of:
\*   (the empty line)
\*   x
\*   x[1]
\*   a[
\*   [2]: 1,2
\*   [x
\*   a: 1
\*   a[1]: 1
\*     x
\*     a: 1
\*   "a:b"
RootLines ==
    {<<>>,
     <<"x">>,
     <<"x","[","1","]">>,
     <<"a","[">>,
     <<"[","2","]",":"," ","1",",","2">>,
     <<"[","x">>,
     <<"a",":"," ","1">>,
     <<"a","[","1","]",":"," ","1">>,
     <<" "," ","x">>,
     <<" "," ","a",":"," ","1">>,
     <<"\"","a",":","b","\"">>}

InitRoot == InitText({DecoderOptions(2, s, "Off") : s \in BOOLEAN})

AppendRootLine ==
    /\ pc = "doc"
    /\ Len(doc) < MaxRootLines
    /\ \E l \in RootLines : doc' = Append(doc, l)
    /\ UNCHANGED <<pc, value, eopts, enc, text, dopts, res, vres, enc2, res2, str, tok, prim>>

NextRoot == AppendRootLine \/ DecodeText

SpecRoot == InitRoot /\ [][NextRoot]_vars

NonBlank(n) == Trim(doc[n]) # <<>>

HasNonBlankLine == \E n \in 1..Len(doc) : NonBlank(n)

\* the first non-blank line of the document without its indentation
FirstLineText ==
    Trim(doc[CHOOSE n \in 1..Len(doc) :
                 NonBlank(n) /\ \A m \in 1..(n - 1) : ~NonBlank(m)])

\* the result is the one of the production named
RootIsEmptyObject == res.st = "ok" /\ res.v = EmptyObj

RootIsArray == res.st = "ok" => res.v.t = "arr"

RootIsPrimitive ==
    /\ res.st = "ok" => (res.v.t \notin {"arr", "obj"}
                             /\ res.v = parse_primitive_token(FirstLineText).v)
    /\ res.st = "err" => parse_primitive_token(FirstLineText).st # "ok"

RootIsObject == res.st = "ok" => res.v.t = "obj"

\* C23: root dispatch of decode_str: no non-blank lines gives an empty
\* object; a first line beginning with '[' is parsed as an unkeyed root
\* array; a first line containing neither ':' nor '[' gives a single
\* primitive root; every other first line starts an object at depth 0.
C23_RootDispatch ==
    pc = "decoded" =>
        IF ~HasNonBlankLine THEN RootIsEmptyObject
        ELSE IF Head(FirstLineText) = "[" THEN RootIsArray
        ELSE IF ~Contains(FirstLineText, ":") /\ ~Contains(FirstLineText, "[")
        THEN RootIsPrimitive
        ELSE RootIsObject

\* the dispatch the decoder makes: a first line without ':' is a primitive
\* root, with or without a '[' after its first character
C23_RootDispatchOnColon ==
    pc = "decoded" =>
        IF ~HasNonBlankLine THEN RootIsEmptyObject
        ELSE IF Head(FirstLineText) = "[" THEN RootIsArray
        ELSE IF ~Contains(FirstLineText, ":") THEN RootIsPrimitive
        ELSE RootIsObject

\* the number of lines the tokenizer keeps: the non-blank lines
NonBlankCount == Cardinality({n \in 1..Len(doc) : NonBlank(n)})

\* C24: whenever decode_str returns a value, every non-blank line of the
\* input has been consumed by some production (the cursor equals the number
\* of tokenized lines): a document with lines that the grammar cannot
\* attach, such as over-indented lines after a field or lines following a
\* root primitive or root array, is rejected and never silently dropped.
\* res.i is the line the cursor stands at, counted from 1; a root primitive
\* moves it past the last line without reading the lines it skips.
C24_EveryLineConsumed ==
    (pc = "decoded" /\ res.st = "ok") =>
        /\ res.i = NonBlankCount + 1
        /\ res.v.t \notin {"arr", "obj"} => NonBlankCount = 1

(***************************************************************************)
(* SpecCur: the productions of the decoder called at every cursor and      *)
(* depth on the lines of a document.  res is the production's result,      *)
(* with the production, the cursor it started from and whether its rows    *)
(* are lines.                                                              *)
(***************************************************************************)
MaxCurLines == 3

\* the lines a document of SpecCur is made of:
\*   a:
\*   x: 1
\*   a[1]:
\*   a[2]{x,y}:
\*     b: 1
\*     1,2
\*     - 1
\*     - c:
\*     - d[1]{x}:
\*       e: 1
\*       1
\*   (the empty line)
CurLines ==
    {<<"a",":">>,
     <<"x",":"," ","1">>,
     <<"a","[","1","]",":">>,
     <<"a","[","2","]","{","x",",","y","}",":">>,
     <<" "," ","b",":"," ","1">>,
     <<" "," ","1",",","2">>,
     <<" "," ","-"," ","1">>,
     <<" "," ","-"," ","c",":">>,
     <<" "," ","-"," ","d","[","1","]","{","x","}",":">>,
     <<" "," "," "," ","e",":"," ","1">>}

InitCur == InitText({DecoderOptions(2, s, "Off") : s \in BOOLEAN})

AppendCurLine ==
    /\ pc = "doc"
    /\ Len(doc) < MaxCurLines
    /\ \E l \in CurLines : doc' = Append(doc, l)
    /\ UNCHANGED <<pc, value, eopts, enc, text, dopts, res, vres, enc2, res2, str, tok, prim>>

\* the header written on a line, after the "- " of a list item if any
HeaderOn(line) ==
    parse_header(IF StartsWith(line.text, <<"-", " ">>) THEN Trim(From(line.text, 3))
                 ELSE line.text,
                 FALSE, line.number)

\* the depths a production is called at on the lines L
CurDepths(L) == {0, 1} \cup {L[n].depth : n \in 1..Len(L)}

\* the calls of the productions on the lines L: each with the cursor i it
\* is called at; an array and the first field of a list item are called
\* after the line that holds their header or their key
Calls(L, S) ==
    {[op |-> "parse_root", L |-> L, S |-> S, i |-> 1, rows |-> FALSE]}
        \cup {[op |-> "parse_object", L |-> L, S |-> S, i |-> i, depth |-> d,
                rows |-> FALSE] :
                   i \in 1..(Len(L) + 1), d \in CurDepths(L)}
        \cup {[op |-> "consume_field", L |-> L, S |-> S, i |-> i, depth |-> d,
                map |-> <<>>, rows |-> FALSE] :
                   i \in 1..Len(L), d \in CurDepths(L)}
        \cup {[op |-> "parse_value_block", L |-> L, S |-> S, i |-> i, depth |-> d,
                rows |-> FALSE] :
                   i \in 1..(Len(L) + 1), d \in CurDepths(L) \ {0}}
        \cup {[op |-> "consume_array", L |-> L, S |-> S, i |-> i,
                depth |-> L[i - 1].depth,
                h |-> [HeaderOn(L[i - 1]).h EXCEPT !.hasKey = FALSE, !.key = <<>>],
                rows |-> ~(HeaderOn(L[i - 1]).h.hasInline
                               /\ HeaderOn(L[i - 1]).h.inline # <<>>)] :
                   i \in {j \in 2..(Len(L) + 1) :
                              HeaderOn(L[j - 1]).st = "ok" /\ HeaderOn(L[j - 1]).some}}
        \cup {[op |-> "parse_inline_object_in_list", L |-> L, S |-> S, i |-> i,
                inline |-> Trim(From(L[i - 1].text, 3)),
                depth |-> L[i - 1].depth, number |-> L[i - 1].number,
                rows |-> FALSE] :
                   i \in {j \in 2..(Len(L) + 1) :
                              /\ StartsWith(L[j - 1].text, <<"-", " ">>)
                              /\ Contains(L[j - 1].text, ":")
                              /\ HeaderOn(L[j - 1]).st = "ok"
                              /\ ~HeaderOn(L[j - 1]).some}}

Run(c) == IF c.op = "parse_root" THEN parse_root(c.L, c.S) ELSE Production(c)

CallProduction ==
    /\ pc = "doc"
    /\ text' = Join(doc, <<"\n">>)
    /\ Tokenize(text', dopts.indent).st = "ok"
    /\ \E c \in Calls(Tokenize(text', dopts.indent).lines, dopts.strict) :
           res' = [op |-> c.op, from |-> c.i, rows |-> c.rows] @@ Run(c)
    /\ pc' = "called"
    /\ UNCHANGED <<value, eopts, enc, doc, dopts, vres, enc2, res2, str, tok, prim>>

NextCur == AppendCurLine \/ CallProduction

SpecCur == InitCur /\ [][NextCur]_vars

\* the number of lines the decoder holds
LineCount == Len(Tokenize(text, dopts.indent).lines)

\* C25: during decoding the line cursor never decreases and never exceeds
\* the number of lines, and every iteration of the object, tabular-row,
\* list-item and sibling-field loops either advances the cursor by at least
\* one line or ends with an error, so decode_str terminates on every input.
\* Every production returns, with a cursor not before the one it was called
\* at and not past the end of the lines; consume_field, the body of the
\* object and sibling loops, has read at least one line, and an array has
\* read at least one line per row or item.
C25_CursorAdvances ==
    pc = "called" =>
        /\ res.st \in {"ok", "err", "abort"}
        /\ res.st = "ok" =>
               /\ res.from <= res.i
               /\ res.i <= LineCount + 1
               /\ res.op = "consume_field" => res.i >= res.from + 1
               /\ (res.op = "consume_array" /\ res.rows) =>
                      res.i >= res.from + Len(res.v.a)

\* parse_object called on the first line reads the three lines of
\*   a:
\*     b: 1
\*   x: 1
C25_Witness ==
    /\ pc = "called"
    /\ doc = <<<<"a",":">>, <<" "," ","b",":"," ","1">>, <<"x",":"," ","1">>>>
    /\ res.op = "parse_object" /\ res.from = 1
    /\ res.st = "ok" /\ res.i = 4

(***************************************************************************)
(* Declared lengths under the lenient decoder (on SpecLen).                *)
(***************************************************************************)
\* the number of lines equal to l that follow line n of the document
\* without interruption
RECURSIVE RunOf(_, _)
RunOf(l, n) == IF n < Len(doc) /\ doc[n + 1] = l THEN 1 + RunOf(l, n + 1) ELSE 0

\* the sequence of n copies of v
Copies(v, n) == [m \in 1..n |-> v]

\* the document is the header, then lines that are the row written as
\* rowLine, the line "  1" or the field line "x: 1", and the rows present
\* are not as many as the header declares
LengthDisagrees(header, rowLine, declared) ==
    /\ doc # <<>> /\ doc[1] = header
    /\ \A n \in 2..Len(doc) :
           doc[n] \in {rowLine, <<" ", " ", "1">>, <<"x", ":", " ", "1">>}
    /\ RunOf(rowLine, 1) # declared

\* the array under a holds the rows present, each decoded to v
Truncated(rowLine, v) ==
    /\ res.st = "ok"
    /\ res.v.t = "obj"
    /\ res.v.o # <<>>
    /\ res.v.o[1] = Entry(<<"a">>, Arr(Copies(v, RunOf(rowLine, 1))))

\* the list a[1]: with items "  - 1", and the table a[1]{x}: with rows "  1"
ListDisagrees ==
    LengthDisagrees(<<"a","[","1","]",":">>, <<" "," ","-"," ","1">>, 1)

TableDisagrees ==
    LengthDisagrees(<<"a","[","1","]","{","x","}",":">>, <<" "," ","1">>, 1)

\* C26: with strict = false, a disagreement between a declared array length
\* and the rows present never causes an error: the decoder returns the rows
\* it consumed up to the first line that does not match the array's row
\* form and continues with that line in the enclosing production.
C26_LenientTruncates ==
    (pc = "decoded" /\ ~dopts.strict) =>
        /\ ListDisagrees => Truncated(<<" "," ","-"," ","1">>, NumInt(1))
        /\ TableDisagrees =>
               Truncated(<<" "," ","1">>, Obj(<<Entry(<<"x">>, NumInt(1))>>))

\* the part that holds: the table, and the list whose items are followed by
\* no line of the items' depth
C26_LenientTruncatesAtShallowerLine ==
    (pc = "decoded" /\ ~dopts.strict) =>
        /\ (ListDisagrees
                /\ (1 + RunOf(<<" "," ","-"," ","1">>, 1) = Len(doc)
                        \/ doc[2 + RunOf(<<" "," ","-"," ","1">>, 1)] = <<"x",":"," ","1">>))
               => Truncated(<<" "," ","-"," ","1">>, NumInt(1))
        /\ TableDisagrees =>
               Truncated(<<" "," ","1">>, Obj(<<Entry(<<"x">>, NumInt(1))>>))

(***************************************************************************)
(* SpecExp: documents of plain and dotted keys that meet each other,       *)
(* decoded with path expansion.                                            *)
(***************************************************************************)
MaxExpLines == 3

\* the lines a document of SpecExp is made of:
\*   a.b: 1
\*   a.b: 2
\*   a: 1
\*   a:
\*     b: 3
\*   a.b.c: 4
\*   c.d: 5
\*   b: 6
ExpLines ==
    {<<"a",".","b",":"," ","1">>,
     <<"a",".","b",":"," ","2">>,
     <<"a",":"," ","1">>,
     <<"a",":">>,
     <<" "," ","b",":"," ","3">>,
     <<"a",".","b",".","c",":"," ","4">>,
     <<"c",".","d",":"," ","5">>,
     <<"b",":"," ","6">>}

InitExp == InitText({DecoderOptions(2, s, "Safe") : s \in BOOLEAN})

AppendExpLine ==
    /\ pc = "doc"
    /\ Len(doc) < MaxExpLines
    /\ \E l \in ExpLines : doc' = Append(doc, l)
    /\ UNCHANGED <<pc, value, eopts, enc, text, dopts, res, vres, enc2, res2, str, tok, prim>>

NextExp == AppendExpLine \/ DecodeText

SpecExp == InitExp /\ [][NextExp]_vars

\* the value found in v by following the keys of path, if there is one
RECURSIVE ValueAt(_, _)
ValueAt(v, path) ==
    IF path = <<>> THEN [some |-> TRUE, v |-> v]
    ELSE IF v.t # "obj" \/ MapIndex(v.o, Head(path)) = 0 THEN [some |-> FALSE]
    ELSE ValueAt(v.o[MapIndex(v.o, Head(path))].v, Tail(path))

\* the path a key of the document names
PathOf(key) == IF IsDottedPath(key) THEN SplitOn(key, ".", <<>>) ELSE <<key>>

\* the last entry of the root object as decoded without expansion; a key
\* written twice keeps the place of its first line in the map
LastField == Unexpanded.v.o[Len(Unexpanded.v.o)]

\* the last line of the document is a field of the root with a primitive
\* value
LastLineIsField ==
    /\ doc # <<>>
    /\ IndentScan(doc[Len(doc)], 1) = 0
    /\ split_key_value(doc[Len(doc)]).some
    /\ Trim(split_key_value(doc[Len(doc)]).rest) # <<>>

LastLineKey == split_key_value(doc[Len(doc)]).key

LastLineValue == parse_primitive_token(Trim(split_key_value(doc[Len(doc)]).rest)).v

\* C27: with expand_paths = Safe and strict = false, path expansion never
\* fails: when a dotted key's path meets an existing key, the later value
\* in document order overwrites the earlier one, and a non-object standing
\* at an intermediate segment is replaced by an object.  So the value of
\* the last field line of the document is found at the end of its path,
\* whatever the lines before it wrote there; stated for the documents the
\* decoder reads to their last line.
C27_LaterLineOverwrites ==
    (/\ pc = "decoded" /\ ~dopts.strict /\ dopts.expand_paths = "Safe"
     /\ Unexpanded.st = "ok" /\ Unexpanded.v.t = "obj" /\ LastLineIsField
     /\ Unexpanded.i = Len(doc) + 1)
        => /\ res.st = "ok"
           /\ ValueAt(res.v, PathOf(LastLineKey)) = [some |-> TRUE, v |-> LastLineValue]

\* what holds: expansion never fails, and the value of the last entry of
\* the map, which is not always the last line, is found at the end of its
\* path
C27_LastEntryOverwrites ==
    (/\ pc = "decoded" /\ ~dopts.strict /\ dopts.expand_paths = "Safe"
     /\ Unexpanded.st = "ok" /\ Unexpanded.v.t = "obj" /\ Unexpanded.v.o # <<>>)
        => /\ res.st = "ok"
           /\ ValueAt(res.v, PathOf(LastField.k)) = [some |-> TRUE, v |-> LastField.v]

(***************************************************************************)
(* SpecFold: encode_value on objects whose fields are chains of            *)
(* single-entry objects next to siblings that carry dotted keys.           *)
(***************************************************************************)
MaxFoldFields == 2

FoldKeys == {<<"a">>, <<"b">>, <<"a", ".", "b">>, <<"a", ".", "b", ".", "c">>}

FoldFieldValues ==
    {NumInt(1),
     Obj(<<Entry(<<"b">>, NumInt(1))>>),
     Obj(<<Entry(<<"b">>, Obj(<<Entry(<<"c">>, NumInt(1))>>))>>),
     Obj(<<Entry(<<"b">>, NumInt(1)), Entry(<<"c">>, NumInt(1))>>),
     Obj(<<Entry(<<"a", ".", "b">>, NumInt(1))>>)}

\* the objects of at most MaxFoldFields fields, each key used once
FoldObjects ==
    {Obj([n \in 1..Len(ks) |-> Entry(ks[n], vs[n])]) :
         <<ks, vs>> \in
             {p \in SeqsUpTo(FoldKeys, MaxFoldFields)
                        \X SeqsUpTo(FoldFieldValues, MaxFoldFields) :
                  /\ Len(p[1]) = Len(p[2]) /\ Len(p[1]) > 0
                  /\ \A n, m \in 1..Len(p[1]) : p[1][n] = p[1][m] => n = m}}

InitFold ==
    /\ pc = "value"
    /\ value \in FoldObjects
    /\ eopts \in {EncoderOptions(2, "Comma", f.key_folding, f.flatten_depth) :
                      f \in FoldingModes}
    /\ dopts = DefaultDecoderOptions
    /\ doc = <<>> /\ text = <<>>
    /\ enc = None /\ res = None /\ vres = None /\ enc2 = None /\ res2 = None
    /\ str = <<>> /\ tok = <<>> /\ prim = None

NextFold == Encode

SpecFold == InitFold /\ [][NextFold]_vars

\* the key written on emitted line n, after its indentation
EmittedKey(n) ==
    WrittenKey(From(EmittedLines[n], IndentScan(EmittedLines[n], 1) + 1))

\* emitted lines n < m are fields of one object: the same indentation, and
\* no line between them that is indented less
FieldsOfOneObject(n, m) ==
    /\ n < m
    /\ IndentScan(EmittedLines[n], 1) = IndentScan(EmittedLines[m], 1)
    /\ \A p \in (n + 1)..(m - 1) :
           IndentScan(EmittedLines[p], 1) >= IndentScan(EmittedLines[n], 1)

\* the numbers of the emitted lines that are not indented, in order
RECURSIVE RootLinesFrom(_)
RootLinesFrom(n) ==
    IF n > Len(EmittedLines) THEN <<>>
    ELSE IF IndentScan(EmittedLines[n], 1) = 0 THEN <<n>> \o RootLinesFrom(n + 1)
    ELSE RootLinesFrom(n + 1)

\* key is the key k followed by '.' and more: a chain that starts at k
FoldedFrom(key, k) ==
    /\ Len(key) > Len(k) + 1
    /\ SubSeq(key, 1, Len(k)) = k
    /\ key[Len(k) + 1] = "."

\* C28: with key_folding = Safe the keys emitted for the fields of one
\* object are pairwise distinct, at every depth; the root object's n-th
\* field is emitted either under its own key or under a dotted key that
\* starts at its key and is not the key of a sibling.
C28_FoldedKeysAreDistinct ==
    (pc = "encoded" /\ eopts.key_folding = "Safe")
        => /\ \A n, m \in 1..Len(EmittedLines) :
                  FieldsOfOneObject(n, m) => EmittedKey(n) # EmittedKey(m)
           /\ Len(RootLinesFrom(1)) = Len(value.o)
           /\ \A n \in 1..Len(value.o) :
                  \/ EmittedKey(RootLinesFrom(1)[n]) = value.o[n].k
                  \/ /\ FoldedFrom(EmittedKey(RootLinesFrom(1)[n]), value.o[n].k)
                     /\ \A m \in 1..Len(value.o) :
                            value.o[m].k # EmittedKey(RootLinesFrom(1)[n])

\* a chain a.b next to a sibling whose key is "a.b" is emitted unfolded,
\* while the chain b.c inside that sibling is folded
C28_Witness ==
    /\ pc = "encoded" /\ eopts.key_folding = "Safe"
    /\ eopts.flatten_depth = NoFlatten
    /\ KeysOf(value) = <<<<"a">>, <<"a", ".", "b">>>>
    /\ value.o[1].v = Obj(<<Entry(<<"b">>, NumInt(1))>>)
    /\ value.o[2].v = Obj(<<Entry(<<"b">>, Obj(<<Entry(<<"c">>, NumInt(1))>>))>>)
    /\ EmittedKey(1) = <<"a">>
    /\ EmittedKey(Len(EmittedLines)) = <<"b", ".", "c">>

(***************************************************************************)
(* The indentation test of the tokenizer, on the documents of SpecTab.     *)
(***************************************************************************)
\* the number of spaces a raw line starts with
RECURSIVE SpaceRun(_)
SpaceRun(raw) ==
    IF raw # <<>> /\ Head(raw) = " " THEN 1 + SpaceRun(Tail(raw)) ELSE 0

IsMultipleOf(count, unit) == \E m \in 0..count : count = m * unit

\* the numbers of the non-blank lines of doc from line n on, in order
RECURSIVE NonBlankFrom(_)
NonBlankFrom(n) ==
    IF n > Len(doc) THEN <<>>
    ELSE IF NonBlank(n) THEN <<n>> \o NonBlankFrom(n + 1)
    ELSE NonBlankFrom(n + 1)

\* some non-blank line starts with a number of spaces that is not a
\* multiple of options.indent
HasBadIndentation ==
    \E n \in 1..Len(doc) :
        NonBlank(n) /\ ~IsMultipleOf(SpaceRun(doc[n]), dopts.indent)

\* the tokenizer kept every non-blank line, with the depth count / indent
\* and its position in the input as line number
LinesAsCounted(t) ==
    /\ Len(t.lines) = Len(NonBlankFrom(1))
    /\ \A k \in 1..Len(t.lines) :
           /\ t.lines[k].number = NonBlankFrom(1)[k]
           /\ t.lines[k].depth
                  = SpaceRun(doc[NonBlankFrom(1)[k]]) \div dopts.indent

\* C29: the tokenizer rejects with a decoding error an input with a
\* non-blank line whose count of leading spaces is not a multiple of
\* options.indent, and gives every line it accepts the depth
\* count / indent and its 1-based position in the input as line number.
C29_IndentationChecked ==
    pc = "decoded"
        => /\ HasBadIndentation
                  => /\ Tokenize(text, dopts.indent).st = "err"
                     /\ res.st = "err"
           /\ Tokenize(text, dopts.indent).st = "ok"
                  => LinesAsCounted(Tokenize(text, dopts.indent))

\* C29 for a positive options.indent
C29_PositiveIndentChecked ==
    (pc = "decoded" /\ dopts.indent >= 1)
        => /\ HasBadIndentation
                  => /\ Tokenize(text, dopts.indent).st = "err"
                     /\ res.st = "err"
           /\ Tokenize(text, dopts.indent).st = "ok"
                  => LinesAsCounted(Tokenize(text, dopts.indent))

\* with options.indent = 0 the first non-blank line without a tab ends the
\* tokenizer in the remainder by zero
C29_ZeroIndentAborts ==
    (pc = "decoded" /\ dopts.indent = 0 /\ NonBlankFrom(1) # <<>>
     /\ IndentScan(doc[NonBlankFrom(1)[1]], 1) >= 0)
        => res.st = "abort"

\* a line of two spaces under indent 3 after a blank line and a line of
\* depth 0: rejected, and under indent 1 the line has depth 2 and number 3
C29_SeenRejected ==
    /\ pc = "decoded" /\ dopts.indent = 3
    /\ doc = <<<<"\t">>, <<"a",":"," ","1">>, <<" "," ","c",":"," ","1">>>>
    /\ res = DErr(3, "indentation must be a multiple")

C29_SeenDepth ==
    /\ pc = "decoded" /\ dopts.indent = 1
    /\ doc = <<<<"\t">>, <<"a",":"," ","1">>, <<" "," ","c",":"," ","1">>>>
    /\ Tokenize(text, 1).st = "ok"
    /\ Tokenize(text, 1).lines[2].depth = 2
    /\ Tokenize(text, 1).lines[2].number = 3

(***************************************************************************)
(* SpecHdr: array headers with whitespace inside the length bracket.       *)
(***************************************************************************)
MaxHdrLines == 2

\* the lines a document of SpecHdr is made of ("\t" is a tab):
\*   a[2]: 1,2        a[ 2]: 1,2       a[2 ]: 1,2       a[ 2 ]: 1,2
\*   b[2|]: 1|2       b[2 |]: 1|2      b[2| ]: 1|2
\*   c[1\t]: 1        c[1 \t]: 1       c[\t1]: 1
\*   d[ 1 ]:
\*     - 1
HdrLines ==
    {<<"a","[","2","]",":"," ","1",",","2">>,
     <<"a","["," ","2","]",":"," ","1",",","2">>,
     <<"a","[","2"," ","]",":"," ","1",",","2">>,
     <<"a","["," ","2"," ","]",":"," ","1",",","2">>,
     <<"b","[","2","|","]",":"," ","1","|","2">>,
     <<"b","[","2"," ","|","]",":"," ","1","|","2">>,
     <<"b","[","2","|"," ","]",":"," ","1","|","2">>,
     <<"c","[","1","\t","]",":"," ","1">>,
     <<"c","[","1"," ","\t","]",":"," ","1">>,
     <<"c","[","\t","1","]",":"," ","1">>,
     <<"d","["," ","1"," ","]",":">>,
     <<" "," ","-"," ","1">>}

InitHdr == InitText({DecoderOptions(2, s, "Off") : s \in BOOLEAN})

AppendHdrLine ==
    /\ pc = "doc"
    /\ Len(doc) < MaxHdrLines
    /\ \E l \in HdrLines : doc' = Append(doc, l)
    /\ UNCHANGED <<pc, value, eopts, enc, text, dopts, res, vres, enc2, res2, str, tok, prim>>

NextHdr == AppendHdrLine \/ DecodeText

SpecHdr == InitHdr /\ [][NextHdr]_vars

\* the text between the '[' and the ']' of a header line
BracketInner(line) == SubSeq(line, Find(line, "[") + 1, Find(line, "]") - 1)

\* whitespace in the bracket other than the one tab that ends it
AmbiguousBracket(line) ==
    /\ Contains(line, "[")
    /\ \E p \in 1..Len(BracketInner(line)) :
           /\ IsWs(BracketInner(line)[p])
           /\ ~(p = Len(BracketInner(line)) /\ BracketInner(line)[p] = "\t")

\* C30: with strict = true the decoder rejects a document with an array
\* header whose length bracket contains whitespace other than the single
\* tab that marks the tab delimiter.
C30_AmbiguousBracketRejected ==
    (pc = "decoded" /\ dopts.strict
     /\ \E n \in 1..Len(doc) : AmbiguousBracket(doc[n]))
        => res.st = "err"

\* spaces on either side of the length are trimmed away, strict or not
C30_SpacesAroundLengthAccepted ==
    (pc = "decoded"
     /\ doc \in {<<<<"a","["," ","2","]",":"," ","1",",","2">>>>,
                 <<<<"a","[","2"," ","]",":"," ","1",",","2">>>>,
                 <<<<"a","["," ","2"," ","]",":"," ","1",",","2">>>>})
        => /\ res.st = "ok"
           /\ res.v = Obj(<<Entry(<<"a">>, Arr(<<NumInt(1), NumInt(2)>>))>>)
====
